---- MODULE Spec2Model ----
(***************************************************************************)
(* Verification model of the tradeverse decision-and-safety core:          *)
(*   - RiskEngine (risk_engine.py) and KillSwitch (kill_switch.py)         *)
(*   - HeartbeatMonitor (monitoring.py) and the settings/mode endpoints    *)
(*     and the watchdog loop of main.py                                    *)
(*   - the IntelligenceLayer workflow graph (agent_layer.py)               *)
(* Money is counted in thousands of rupees, time in seconds.               *)
(***************************************************************************)
EXTENDS Integers, Sequences, FiniteSets, TLC

VARIABLES
    \* ---- RiskEngine (risk_engine.py:8-12)
    daily_loss_limit, max_position_size, current_daily_loss, circuit_breaker_active,
    \* ---- kill_switch.lock in the working directory (kill_switch.py:9)
    marker,
    \* ---- observation: the last RiskEngine / KillSwitch call and what it returned
    lastCall,
    \* ---- observation: the sum of the magnitudes of the negative PnL values passed
    \* to update_pnl, and whether the last RiskEngine mutation was a breaker reset
    lossesPassed, resetLast,
    \* ---- the RiskEngine calls in progress in each thread, with the position each
    \* has reached; observation: the losses of the update_pnl calls that returned
    rCalls, returnedLosses,
    \* number of KillSwitch instances created so far, per process
    ksInstances,
    \* ---- observation: ksInstances as it was at the last activate()
    instAtActivate,
    \* ---- the KillSwitch calls in progress in each process, with the position
    \* each has reached; observation: which of activate / deactivate returned
    \* last, and whether any call ended in an exception
    ksCalls, ksLastWrite, ksRaised,
    \* ---- the shared store (redis_manager.py) as monitoring.py and main.py use it:
    \* user:<id>:heartbeat, the TRADING_MODE view of user:<id>:settings and
    \* set:active_auto_users; the wall clock; the settings record each in-flight
    \* update_settings request has read; the next wake-up of the run_watchdog loop
    now, heartbeat, settings, active_auto_users, usRead, nextWake,
    \* ---- observation: the check_watchdog call, when it was the last step
    wdCall,
    \* ---- IntelligenceLayer (agent_layer.py:58-207): which lazily loaded components
    \* are available, the breaker of its own RiskEngine, GEXEngine.last_analysis
    il,
    \* ---- one workflow.invoke (agent_layer.py:682): idle / running / done / aborted,
    \* the nodes scheduled for the current superstep, those of them already run,
    \* the nodes that completed in earlier supersteps, the channel values the
    \* nodes of this superstep read, and the values after their writes
    gPhase, gFrontier, gRan, gDone, gState, gNext,
    \* ---- the arguments of run_analysis and what the outside world answers
    \* during this run; observation: the steps whose producer was missing or
    \* failed in this run, the last evaluation of _aggregator
    gInput, gEnv, gFaults, aggObs,
    \* ---- observation: a risk check that started after all five gathering steps
    \* had completed has itself completed
    gJoined

riskVars == <<daily_loss_limit, max_position_size, current_daily_loss,
              circuit_breaker_active, lossesPassed, resetLast, rCalls, returnedLosses>>
ksVars == <<marker, ksInstances, instAtActivate, ksCalls, ksLastWrite, ksRaised>>

wdVars == <<now, heartbeat, settings, active_auto_users, usRead, nextWake, wdCall>>

graphVars == <<il, gPhase, gFrontier, gRan, gDone, gState, gNext, gInput,
              gEnv, gFaults, aggObs, gJoined>>

vars == <<riskVars, ksVars, lastCall, wdVars, graphVars>>

----------------------------------------------------------------------------
\* Bounds of the model
MaxLoss == 12          \* cap on the accumulated daily loss explored
MaxInstances == 2      \* KillSwitch instances created per process

\* Inputs
Procs == {"p1", "p2"}
NoPrice == -1
Quantities == {0, 1, 3}
Prices == {NoPrice, 50, 100}
Orders == [quantity : Quantities, price : Prices]
PnLs == {-5, -3, 0, 2}
LimitChoices == {5, 10}        \* RiskEngine() default 5000.0, config default 10000.0
PositionChoices == {100}       \* RiskEngine() default 100000.0
Reasons == {"Manual Activation", "Test Activation"}

NoMarker == [present |-> FALSE, reason |-> ""]
NoCall == [name |-> "none"]

\* the threads that call one RiskEngine, and a thread with no call in progress
RiskThreads == {"w1", "w2"}
NoRiskCall == [pc |-> "idle"]

\* a process with no KillSwitch call in progress
NoKsCall == [pc |-> "idle"]

----------------------------------------------------------------------------
\* RiskEngine

\* order_details.get("price", 0): a missing key reads as 0
OrderGet(v) == IF v = NoPrice THEN 0 ELSE v

order_value(o) == o.quantity * OrderGet(o.price)

\* RiskEngine.validate_order: the {"allowed", "reason"} dictionary it returns
validate_order(o) ==
    IF circuit_breaker_active
    THEN [allowed |-> FALSE, reason |-> "Circuit breaker is ACTIVE. Trading halted."]
    ELSE IF current_daily_loss >= daily_loss_limit
    THEN [allowed |-> FALSE, reason |-> "Daily loss limit reached."]
    ELSE IF order_value(o) > max_position_size
    THEN [allowed |-> FALSE, reason |-> "Order value exceeds max position size."]
    ELSE [allowed |-> TRUE, reason |-> "Safe to proceed."]

\* RiskEngine.get_risk_status()["circuit_breaker_status"]
circuit_breaker_status == IF circuit_breaker_active THEN "HALTED" ELSE "NOMINAL"

\* KillSwitch.is_active: os.path.exists(KILL_SWITCH_FILE)
is_active == marker.present

\* KillSwitch.get_status
get_status ==
    IF is_active THEN [status |-> "KILLED", details |-> marker.reason]
    ELSE [status |-> "NOMINAL", details |-> "System Running"]

ValidateOrder ==
    \E o \in Orders :
        /\ lastCall' = [name |-> "validate_order", order |-> o,
                        result |-> validate_order(o)]
        /\ UNCHANGED <<riskVars, ksVars, wdVars, graphVars>>

\* the loss update_pnl adds to the counter for one realized PnL
\* the price a market order fills at; the order handed to the RiskEngine does
\* not carry it
MarketPrices == {50, 100}

\* execute_autopilot, broker branch, once the analysis returned BUY or SELL:
\* the order is validated without a price key and then placed at market
ExecuteAutopilot ==
    \E quantity \in Quantities, ltp \in MarketPrices :
        LET order_data == [quantity |-> quantity, price |-> NoPrice]
            risk_val == validate_order(order_data)
        IN  /\ lastCall' = [name |-> "execute_autopilot", order |-> order_data,
                            fill_price |-> ltp,
                            result |-> risk_val,
                            status |-> IF risk_val.allowed THEN "EXECUTED"
                                       ELSE "RISK_REJECTED"]
            /\ UNCHANGED <<riskVars, ksVars, wdVars, graphVars>>

loss_of_net(pnl) == -pnl

\* the amount update_pnl adds for one realized PnL
loss_of(pnl) == IF pnl < 0 THEN -pnl ELSE 0

UpdatePnl ==
    \E pnl \in PnLs :
        /\ current_daily_loss + loss_of(pnl) <= MaxLoss
        /\ current_daily_loss' = current_daily_loss + loss_of(pnl)
        /\ circuit_breaker_active' =
              IF current_daily_loss' >= daily_loss_limit THEN TRUE
              ELSE circuit_breaker_active
        /\ lossesPassed' = lossesPassed + (IF pnl < 0 THEN -pnl ELSE 0)
        /\ returnedLosses' = returnedLosses + (IF pnl < 0 THEN -pnl ELSE 0)
        /\ resetLast' = FALSE
        /\ lastCall' = [name |-> "update_pnl", pnl |-> pnl]
        /\ UNCHANGED <<daily_loss_limit, max_position_size, rCalls, ksVars, wdVars,
                       graphVars>>

TriggerCircuitBreaker ==
    \E active \in BOOLEAN :
        /\ circuit_breaker_active' = active
        /\ resetLast' = ~active
        /\ lastCall' = [name |-> "trigger_circuit_breaker", active |-> active,
                        status |-> IF active THEN "HALTED" ELSE "ACTIVE"]
        /\ UNCHANGED <<daily_loss_limit, max_position_size, current_daily_loss,
                       lossesPassed, rCalls, returnedLosses, ksVars, wdVars, graphVars>>

----------------------------------------------------------------------------
\* KillSwitch

\* what activate leaves in kill_switch.lock
activate_marker(reason) == [present |-> TRUE, reason |-> reason]

\* a deactivate that leaves the file in place
deactivate_marker_keep(m) == m

\* what deactivate leaves of kill_switch.lock
deactivate_marker(m) == NoMarker

\* KillSwitch(): a new instance in process p (a start or restart of p)
NewKillSwitch ==
    \E p \in Procs :
        /\ ksInstances[p] < MaxInstances
        /\ ksInstances' = [ksInstances EXCEPT ![p] = @ + 1]
        /\ lastCall' = [name |-> "KillSwitch", proc |-> p]
        /\ UNCHANGED <<marker, instAtActivate, ksCalls, ksLastWrite, ksRaised,
                       riskVars, wdVars, graphVars>>

Activate ==
    \E p \in Procs, reason \in Reasons :
        /\ ksInstances[p] > 0
        /\ marker' = activate_marker(reason)
        /\ instAtActivate' = ksInstances
        /\ lastCall' = [name |-> "activate", proc |-> p]
        /\ UNCHANGED <<ksInstances, ksCalls, ksLastWrite, ksRaised,
                       riskVars, wdVars, graphVars>>

Deactivate ==
    \E p \in Procs :
        /\ ksInstances[p] > 0
        /\ marker' = IF is_active THEN deactivate_marker(marker) ELSE marker
        /\ instAtActivate' = [q \in Procs |-> 0]
        /\ lastCall' = [name |-> "deactivate", proc |-> p]
        /\ UNCHANGED <<ksInstances, ksCalls, ksLastWrite, ksRaised,
                       riskVars, wdVars, graphVars>>

IsActive ==
    \E p \in Procs :
        /\ ksInstances[p] > 0
        /\ lastCall' = [name |-> "is_active", proc |-> p, result |-> is_active]
        /\ UNCHANGED <<ksVars, riskVars, wdVars, graphVars>>

GetStatus ==
    \E p \in Procs :
        /\ ksInstances[p] > 0
        /\ lastCall' = [name |-> "get_status", proc |-> p, result |-> get_status]
        /\ UNCHANGED <<ksVars, riskVars, wdVars, graphVars>>

----------------------------------------------------------------------------
\* HeartbeatMonitor and the endpoints that write the store

Users == {"u1", "u2"}
NoBeat == -1
TIMEOUT_SECONDS == 30
HEARTBEAT_EX == 60
WATCHDOG_SLEEP == 60

\* Bounds of the watchdog model
TickStep == 15         \* seconds the clock advances in one step
MaxNow == 60           \* last clock value explored
MaxInFlight == 1       \* update_settings requests suspended at once
MaxServiceNow == 105   \* last clock value explored in the running service

\* redis.get("user:<id>:heartbeat"): the key is gone once its expiry has passed
HbGet(u) ==
    IF heartbeat[u] # NoBeat /\ now - heartbeat[u] >= HEARTBEAT_EX THEN NoBeat
    ELSE heartbeat[u]

\* a test that also fires at exactly the timeout
Stale_at_timeout(u) == HbGet(u) = NoBeat \/ now - HbGet(u) >= TIMEOUT_SECONDS

\* check_watchdog's test: no beat, or one older than the timeout
Stale(u) == HbGet(u) = NoBeat \/ now - HbGet(u) > TIMEOUT_SECONDS

\* _emergency_stop: the TRADING_MODE it leaves in a settings record
emergency_stop_mode(m) == IF m = "AUTO" THEN "MANUAL" ELSE m

\* an _emergency_stop that removes the user whatever the record holds
emergency_stop_srem_always(m) == TRUE

\* _emergency_stop: whether it reaches the srem on set:active_auto_users
emergency_stop_srem(m) == m = "AUTO"

\* what update_settings writes back for a record it read: TRADING_MODE is kept as
\* read, and a missing record becomes one without TRADING_MODE
update_settings_record(m) == IF m = "none" THEN "unset" ELSE m

Tick ==
    /\ now + TickStep <= MaxNow
    /\ now' = now + TickStep
    /\ wdCall' = NoCall
    /\ UNCHANGED <<heartbeat, settings, active_auto_users, usRead, nextWake,
                   graphVars, riskVars, ksVars, lastCall>>

RecordHeartbeat ==
    \E u \in Users :
        /\ heartbeat' = [heartbeat EXCEPT ![u] = now]
        /\ wdCall' = NoCall
        /\ UNCHANGED <<now, settings, active_auto_users, usRead, nextWake,
                       graphVars, riskVars, ksVars, lastCall>>

CheckWatchdog ==
    LET stale == {u \in active_auto_users : Stale(u)} IN
        /\ settings' = [u \in Users |->
              IF u \in stale THEN emergency_stop_mode(settings[u]) ELSE settings[u]]
        /\ active_auto_users' =
              active_auto_users \ {u \in stale : emergency_stop_srem(settings[u])}
        /\ wdCall' = [name |-> "check_watchdog", stale |-> stale]
        /\ UNCHANGED <<now, heartbeat, usRead, nextWake, graphVars, riskVars, ksVars, lastCall>>

\* POST /api/settings/mode
SetExecutionMode ==
    \E u \in Users, mode \in {"MANUAL", "AUTO", "PAPER"} :
        /\ wdCall' = NoCall
        /\ IF mode = "AUTO"
           THEN /\ settings' = [settings EXCEPT ![u] = "AUTO"]
                /\ active_auto_users' = active_auto_users \cup {u}
                /\ heartbeat' = [heartbeat EXCEPT ![u] = now]
           ELSE IF mode = "MANUAL"
           THEN /\ settings' = [settings EXCEPT ![u] = "MANUAL"]
                /\ active_auto_users' = active_auto_users \ {u}
                /\ UNCHANGED heartbeat
           ELSE UNCHANGED <<settings, active_auto_users, heartbeat>>
        /\ UNCHANGED <<now, usRead, nextWake, graphVars, riskVars, ksVars, lastCall>>

\* POST /api/settings/update without env = LIVE: nothing suspends it between its
\* read and its write
UpdateSettings ==
    \E u \in Users :
        /\ settings' = [settings EXCEPT ![u] = update_settings_record(settings[u])]
        /\ wdCall' = NoCall
        /\ UNCHANGED <<now, heartbeat, active_auto_users, usRead, nextWake,
                       graphVars, riskVars, ksVars, lastCall>>

\* POST /api/settings/update with env = LIVE: reads the record, then awaits the
\* broker login in a thread
UpdateSettingsRead ==
    \E u \in Users :
        /\ usRead[u] = "idle"
        /\ Cardinality({v \in Users : usRead[v] # "idle"}) < MaxInFlight
        /\ usRead' = [usRead EXCEPT ![u] = settings[u]]
        /\ wdCall' = NoCall
        /\ UNCHANGED <<now, heartbeat, settings, active_auto_users, nextWake,
                       graphVars, riskVars, ksVars, lastCall>>

\* the login succeeded: the request writes back the record it read
UpdateSettingsWrite ==
    \E u \in Users :
        /\ usRead[u] # "idle"
        /\ settings' = [settings EXCEPT ![u] = update_settings_record(usRead[u])]
        /\ usRead' = [usRead EXCEPT ![u] = "idle"]
        /\ wdCall' = NoCall
        /\ UNCHANGED <<now, heartbeat, active_auto_users, nextWake,
                       graphVars, riskVars, ksVars, lastCall>>

\* the login failed: HTTP 400, nothing is written
UpdateSettingsDenied ==
    \E u \in Users :
        /\ usRead[u] # "idle"
        /\ usRead' = [usRead EXCEPT ![u] = "idle"]
        /\ wdCall' = NoCall
        /\ UNCHANGED <<now, heartbeat, settings, active_auto_users, nextWake,
                       graphVars, riskVars, ksVars, lastCall>>

\* the clock of the running service: the run_watchdog task wakes once its sleep is over
ServiceTick ==
    /\ now < nextWake
    /\ now + TickStep <= MaxServiceNow
    /\ now' = now + TickStep
    /\ wdCall' = NoCall
    /\ UNCHANGED <<heartbeat, settings, active_auto_users, usRead, nextWake,
                   graphVars, riskVars, ksVars, lastCall>>

\* one iteration of the while-loop of run_watchdog (main.py): it logs a missing API
\* key and sleeps 60 s; it reads and writes nothing of the store. (At 16:00 it also
\* starts the daily data update and sleeps 61 s more; the window explored here does
\* not contain 16:00.)
RunWatchdog ==
    /\ now >= nextWake
    /\ nextWake' = now + WATCHDOG_SLEEP
    /\ wdCall' = NoCall
    /\ UNCHANGED <<now, heartbeat, settings, active_auto_users, usRead,
                   graphVars, riskVars, ksVars, lastCall>>

----------------------------------------------------------------------------
\* IntelligenceLayer: the committee workflow (agent_layer.py)
\* Prices and ATR are in index points, confidence in percent, PCR, sentiment,
\* causal strength and component score in hundredths, the convergence score
\* and the success probability in ten-thousandths.

Nodes == {"coordinator", "sentiment", "technical", "options", "tft", "rl_sniper",
          "risk", "aggregator", "exit_monitor"}

\* workflow.add_edge(a, b), one call per pair (agent_layer.py:638-655)
Edges == {<<"coordinator", "sentiment">>, <<"coordinator", "technical">>,
          <<"coordinator", "options">>,
          <<"technical", "tft">>, <<"technical", "rl_sniper">>,
          <<"sentiment", "risk">>, <<"options", "risk">>,
          <<"tft", "risk">>, <<"rl_sniper", "risk">>,
          <<"risk", "aggregator">>, <<"risk", "exit_monitor">>}

\* the keys of AgentState; a key outside it has no channel
SchemaKeys == {"positions", "exit_signals", "technical_context", "sentiment_label",
               "sentiment_score", "ai_prediction", "regime", "confidence", "pcr",
               "tft_prediction", "rl_action", "risk_approval", "final_signal",
               "model_scores", "trade_recommendation", "technical_analysis"}

\* the keys declared Annotated[str, operator.add]: a write is appended to the
\* channel's value instead of replacing it
ReducerKeys == {"technical_analysis"}

W_TECHNICAL == 4000
W_TFT == 2000
W_RL == 1500
W_SENTIMENT_PCT == 15
W_OPTIONS == 1000
PCR_LOW == 85
PCR_HIGH == 115
PCR_NEUTRAL == 100
SENT_POSITIVE == 75
REQ_STRICT == 7000
REQ_NORMAL == 3000
REQ_VOLATILE == 5000
REQ_GREEDY == 1000
META_THRESHOLD == 6500
PROB_DEFAULT == 10000
GATE_MARGIN == 30
WALL_EXIT_MARGIN == 10
CAUSAL_DEFAULT == 50

Abs(x) == IF x < 0 THEN -x ELSE x
Max2(a, b) == IF a >= b THEN a ELSE b
Min2(a, b) == IF a <= b THEN a ELSE b

MinOf(S) == CHOOSE x \in S : \A y \in S : x <= y
MaxOf(S) == CHOOSE x \in S : \A y \in S : x >= y

RECURSIVE SortedAsc(_)
SortedAsc(S) == IF S = {} THEN <<>> ELSE <<MinOf(S)>> \o SortedAsc(S \ {MinOf(S)})

RECURSIVE SortedDesc(_)
SortedDesc(S) == IF S = {} THEN <<>> ELSE <<MaxOf(S)>> \o SortedDesc(S \ {MaxOf(S)})

\* state.get(key, default) on the state a node receives
Get(s, k, d) == IF k \in s.present THEN s[k] ELSE d

\* ---- StrategyOptimizer (strategy_optimizer.py)
calculate_tsl(entry_price, current_price, side, atr, regime) ==
    LET risk_dist == IF regime = "VOLATILE" THEN atr * 2 ELSE (atr * 3) \div 2
    IN  IF side = "BUY"
          THEN Max2(entry_price - risk_dist, current_price - risk_dist)
          ELSE Min2(entry_price + risk_dist, current_price + risk_dist)

NoPivots == [R1 |-> 0, R2 |-> 0, S1 |-> 0, S2 |-> 0]
NoGex == [present |-> FALSE, call_wall |-> 0, put_wall |-> 0, pcr |-> PCR_NEUTRAL]

Step(price, side, d) == IF side = "BUY" THEN price + d ELSE price - d

target_levels_none(price, side, atr, pivot_levels, regime, gex_data) == {}

target_levels(price, side, atr, pivot_levels, regime, gex_data) ==
    LET base == IF regime = "TRENDING_INTRADAY"
                  THEN {Step(price, side, atr * 3), Step(price, side, atr * 5)}
                  ELSE {Step(price, side, (atr * 3) \div 2),
                        Step(price, side, (atr * 5) \div 2)}
        piv == IF pivot_levels = NoPivots THEN {}
               ELSE IF side = "BUY"
                 THEN (IF pivot_levels.R1 # 0 THEN {pivot_levels.R1} ELSE {})
                      \cup (IF regime = "TRENDING_INTRADAY" /\ pivot_levels.R2 # 0
                              THEN {pivot_levels.R2} ELSE {})
                 ELSE (IF pivot_levels.S1 # 0 THEN {pivot_levels.S1} ELSE {})
                      \cup (IF regime = "TRENDING_INTRADAY" /\ pivot_levels.S2 # 0
                              THEN {pivot_levels.S2} ELSE {})
        gex == IF ~gex_data.present THEN {}
               ELSE IF side = "BUY"
                 THEN (IF gex_data.call_wall > price
                         THEN {gex_data.call_wall - WALL_EXIT_MARGIN} ELSE {})
                 ELSE (IF 0 < gex_data.put_wall /\ gex_data.put_wall < price
                         THEN {gex_data.put_wall + WALL_EXIT_MARGIN} ELSE {})
    IN  base \cup piv \cup gex

calculate_targets_ascending(price, side, atr, pivot_levels, regime, gex_data) ==
    SortedAsc(target_levels(price, side, atr, pivot_levels, regime, gex_data))

calculate_targets(price, side, atr, pivot_levels, regime, gex_data) ==
    LET levels == target_levels(price, side, atr, pivot_levels, regime, gex_data)
    IN  IF side = "SELL" THEN SortedDesc(levels) ELSE SortedAsc(levels)

calculate_convergence_score(sig) ==
    LET tech == IF sig.tech_pred = "UP" THEN 1
                ELSE IF sig.tech_pred = "DOWN" THEN -1 ELSE 0
        tft == IF sig.tft_pred = "UP" THEN 1
               ELSE IF sig.tft_pred = "DOWN" THEN -1 ELSE 0
        rl == IF sig.rl_action = 1 THEN 1
              ELSE IF sig.rl_action = 2 THEN -1 ELSE 0
        opt == IF sig.pcr < PCR_LOW THEN 1
               ELSE IF sig.pcr > PCR_HIGH THEN -1 ELSE 0
    IN  [score |-> tech * W_TECHNICAL + tft * W_TFT + rl * W_RL
                   + sig.sentiment_score * W_SENTIMENT_PCT + opt * W_OPTIONS,
         details |-> [technical |-> tech * 100, tft |-> tft * 100, rl |-> rl * 100,
                      sentiment |-> sig.sentiment_score, options |-> opt * 100]]

\* ---- MetaLabeler (meta_labeler.py)
\* floor(10000 / (1 + exp(-12 * (s - 0.55)))) for s = -0.60, -0.59, ..., 1.60
SigmoidTable == <<
    0, 0, 0, 0, 0, 0, 0, 0, 0, 0, 0, 0, 0,
    0, 0, 0, 0, 0, 0, 0, 0, 0, 0, 0, 0, 0,
    0, 0, 0, 0, 0, 0, 0, 0, 0, 0, 0, 0, 0,
    1, 1, 1, 1, 1, 1, 2, 2, 2, 3, 3, 4, 4,
    5, 5, 6, 7, 8, 9, 10, 12, 13, 15, 17, 19, 21,
    24, 27, 31, 35, 39, 44, 50, 57, 64, 72, 81, 91, 103,
    116, 131, 147, 166, 187, 210, 236, 265, 298, 335, 376, 422, 474,
    531, 595, 666, 744, 831, 927, 1034, 1150, 1278, 1418, 1570, 1736, 1915,
    2108, 2314, 2535, 2768, 3015, 3273, 3543, 3822, 4109, 4402, 4700, 5000, 5299,
    5597, 5890, 6177, 6456, 6726, 6984, 7231, 7464, 7685, 7891, 8084, 8263, 8429,
    8581, 8721, 8849, 8965, 9072, 9168, 9255, 9333, 9404, 9468, 9525, 9577, 9623,
    9664, 9701, 9734, 9763, 9789, 9812, 9833, 9852, 9868, 9883, 9896, 9908, 9918,
    9927, 9935, 9942, 9949, 9955, 9960, 9964, 9968, 9972, 9975, 9978, 9980, 9982,
    9984, 9986, 9987, 9989, 9990, 9991, 9992, 9993, 9994, 9994, 9995, 9995, 9996,
    9996, 9997, 9997, 9997, 9998, 9998, 9998, 9998, 9998, 9998, 9999, 9999, 9999,
    9999, 9999, 9999, 9999, 9999, 9999, 9999, 9999, 9999, 9999, 9999, 9999, 9999,
    9999, 9999, 9999, 9999, 9999, 9999, 9999, 9999, 9999, 9999, 9999, 9999, 9999 >>

SIGMOID_LOW == -60

Sigmoid_reflected(x) == SigmoidTable[Len(SigmoidTable) - (x - SIGMOID_LOW)]

Sigmoid(x) == SigmoidTable[x - SIGMOID_LOW + 1]

vet_signal(signal, confidence, tech_ctx, comp_score, gex_data) ==
    LET regime == tech_ctx.regime
        causal == tech_ctx.causal_strength
        trend == (IF (signal = "BUY" /\ comp_score > 30) \/ (signal = "SELL" /\ comp_score < -30)
                    THEN 25 ELSE 0)
                 + (IF causal > 70 THEN 20 ELSE IF causal < 30 THEN -15 ELSE 0)
        range == (IF Abs(comp_score) > 70 THEN -20 ELSE 0)
                 + (IF (signal = "BUY" /\ gex_data.pcr > 120) \/ (signal = "SELL" /\ gex_data.pcr < 80)
                      THEN 15 ELSE 0)
        opening == IF Abs(comp_score) < 50 THEN -10 ELSE 10
        byRegime == IF regime = "TRENDING_INTRADAY" THEN trend
                    ELSE IF regime \in {"RANGE_BOUND", "LUNCH_LULL"} THEN range
                    ELSE IF regime = "OPENING_VOLATILITY" THEN opening
                    ELSE 0
        ltp == tech_ctx.ltp
        wall == IF ltp > 0
                  THEN IF signal = "BUY" /\ 0 < gex_data.call_wall - ltp
                                         /\ gex_data.call_wall - ltp < 40 THEN -30
                       ELSE IF signal = "SELL" /\ 0 < ltp - gex_data.put_wall
                                               /\ ltp - gex_data.put_wall < 40 THEN -30
                       ELSE 0
                  ELSE 0
    IN  IF signal = "HOLD" THEN 0 ELSE Sigmoid(confidence + byRegime + wall)

get_vetted_signal_unvetted(signal, confidence, tech_ctx, comp_score, gex_data, threshold) ==
    [signal |-> signal, prob |-> vet_signal(signal, confidence, tech_ctx, comp_score, gex_data)]

get_vetted_signal(signal, confidence, tech_ctx, comp_score, gex_data, threshold) ==
    LET prob == vet_signal(signal, confidence, tech_ctx, comp_score, gex_data)
    IN  IF prob >= threshold THEN [signal |-> signal, prob |-> prob]
                             ELSE [signal |-> "HOLD", prob |-> prob]

\* ---- GEXEngine (gex_engine.py)
RECURSIVE SumField(_, _)
SumField(chain, f) == IF chain = <<>> THEN 0 ELSE Head(chain)[f] + SumField(Tail(chain), f)

\* DataFrame.idxmax: the first row holding the maximum
IdxMax(chain, f) ==
    CHOOSE i \in 1..Len(chain) :
        /\ \A j \in 1..Len(chain) : chain[j][f] <= chain[i][f]
        /\ \A j \in 1..(i - 1) : chain[j][f] < chain[i][f]

chain_pcr(chain) ==
    IF SumField(chain, "oi_ce") > 0
      THEN (SumField(chain, "oi_pe") * 100) \div SumField(chain, "oi_ce")
      ELSE PCR_NEUTRAL

\* the walls and the ratio of the analysis; max_pain and the magnet fields are
\* reported only and read by no decision
analyze_chain(chain) ==
    IF chain = <<>> THEN NoGex
    ELSE [present |-> TRUE,
          call_wall |-> chain[IdxMax(chain, "oi_ce")].strike,
          put_wall |-> chain[IdxMax(chain, "oi_pe")].strike,
          pcr |-> chain_pcr(chain)]

\* GEXEngine.last_analysis after analyze_chain(chain)
last_analysis_after(last, chain) == IF chain = <<>> THEN last ELSE analyze_chain(chain)

get_safety_gate_inclusive(last, signal, spot_price) ==
    IF ~last.present THEN [allow |-> TRUE, reason |-> "No GEX data"]
    ELSE IF signal = "BUY" /\ spot_price >= last.call_wall - GATE_MARGIN
      THEN [allow |-> FALSE, reason |-> "APPROACHING HEAVY CALL WALL"]
    ELSE IF signal = "SELL" /\ spot_price <= last.put_wall + GATE_MARGIN
      THEN [allow |-> FALSE, reason |-> "APPROACHING HEAVY PUT WALL"]
    ELSE [allow |-> TRUE, reason |-> "Path clear"]

get_safety_gate(last, signal, spot_price) ==
    IF ~last.present THEN [allow |-> TRUE, reason |-> "No GEX data"]
    ELSE IF signal = "BUY" /\ spot_price > last.call_wall - GATE_MARGIN
      THEN [allow |-> FALSE, reason |-> "APPROACHING HEAVY CALL WALL"]
    ELSE IF signal = "SELL" /\ spot_price < last.put_wall + GATE_MARGIN
      THEN [allow |-> FALSE, reason |-> "APPROACHING HEAVY PUT WALL"]
    ELSE [allow |-> TRUE, reason |-> "Path clear"]

\* ---- the values the nodes exchange
EmptyCtx == [ltp |-> 0, regime |-> "NOMINAL", confidence |-> 0,
             causal_strength |-> CAUSAL_DEFAULT, component_alpha |-> 0, atr |-> 0]
NoScores == [technical |-> 0, tft |-> 0, rl |-> 0, sentiment |-> 0, options |-> 0]
NoPlan == [attached |-> FALSE, initial_sl |-> 0, trailing_sl_active |-> FALSE,
           targets |-> <<>>]
NoTrade == [action |-> "HOLD", strike |-> 0, option_type |-> "N/A", reasoning |-> "",
            exit_plan |-> NoPlan]

\* every key a node reads or writes, with the value a read finds when the key is absent
BlankState ==
    [present |-> {}, positions |-> <<>>, exit_signals |-> <<>>,
     technical_context |-> EmptyCtx, sentiment_label |-> "NEUTRAL",
     sentiment_score |-> 0, ai_prediction |-> "UNKNOWN", regime |-> "NOMINAL",
     confidence |-> 0, pcr |-> PCR_NEUTRAL, tft_prediction |-> "NEUTRAL",
     rl_action |-> 0, risk_approval |-> FALSE, final_signal |-> "HOLD",
     model_scores |-> NoScores, trade_recommendation |-> NoTrade,
     greedy |-> FALSE, gex_data |-> NoGex, technical_analysis |-> <<>>]

\* the writes of one node applied to the channels: a key with no channel is dropped
Merge(s, upd) ==
    [k \in DOMAIN s |->
        IF k = "present" THEN s.present \cup (DOMAIN upd \cap SchemaKeys)
        ELSE IF k \in DOMAIN upd /\ k \in ReducerKeys THEN s[k] \o upd[k]
        ELSE IF k \in DOMAIN upd /\ k \in SchemaKeys THEN upd[k]
        ELSE s[k]]

\* run_analysis: the initial state handed to workflow.invoke
initial_state(positions, greedy) ==
    [positions |-> positions, greedy |-> greedy, exit_signals |-> <<>>,
     technical_context |-> EmptyCtx, sentiment_label |-> "NEUTRAL",
     ai_prediction |-> "UNKNOWN", risk_approval |-> FALSE, final_signal |-> "HOLD",
     confidence |-> 0, model_scores |-> NoScores, regime |-> "NOMINAL",
     technical_analysis |-> <<>>]

Raised == [raised |-> TRUE]
Returns(upd) == [raised |-> FALSE, update |-> upd]

\* ---- what the outside world answers during one run
TechFailureKinds == {"import_error", "no_data", "regime_raises", "causality_raises",
                     "model_missing", "predict_none", "predict_raises"}

TechFailure(kind) ==
    [kind |-> kind, prediction |-> 0, regime |-> "NOMINAL", confidence |-> 0,
     causal |-> CAUSAL_DEFAULT, comp |-> 0, atr |-> 0]

Market(prediction, regime, confidence, causal, comp, atr) ==
    [kind |-> "pred", prediction |-> prediction, regime |-> regime,
     confidence |-> confidence, causal |-> causal, comp |-> comp, atr |-> atr]

\* model_engine.predict_with_confidence results: regime labels of
\* regime_engine.py:58-65, confidence on both sides of the vetting boundary
CalmMarket == Market(1, "NOMINAL", 61, 50, 0, 100)

Markets ==
    {CalmMarket,
     Market(1, "NOMINAL", 60, 50, 0, 100),
     Market(0, "RANGE_BOUND", 81, 50, 80, 100),
     Market(1, "TRENDING_INTRADAY", 40, 80, 80, 100),
     Market(1, "TRENDING_INTRADAY", 62, 50, 0, 100),
     Market(0, "OPENING_VOLATILITY", 55, 50, -80, 100),
     Market(1, "POWER_HOUR", 90, 50, 0, 100),
     Market(0, "LUNCH_LULL", 65, 50, 0, 0),
     Market(0, "CLOSING_SQUEEZE", 90, 50, 0, 100)}

LtpChoices == {50000}

Row(strike, ce, pe) == [strike |-> strike, oi_ce |-> ce, oi_pe |-> pe]

EmptyChain == <<>>
BullChain == <<Row(49000, 10, 50), Row(51000, 90, 20)>>
BearChain == <<Row(49000, 10, 100), Row(51000, 90, 30)>>
NearChain == <<Row(49990, 20, 70), Row(50020, 80, 30)>>

Chains == {EmptyChain, BullChain, BearChain, NearChain}

Chain(c) == [raises |-> FALSE, chain |-> c]
Tft(p) == [kind |-> "prob", prob |-> p]
Rl(a) == [kind |-> "action", action |-> a]

TftFailureKinds == {"pipeline_raises", "engine_missing", "predict_raises"}
RlFailureKinds == {"pipeline_raises", "agent_missing", "action_raises"}

Scenario(reply, tech, options, tft, rl) ==
    [reply |-> reply, tech |-> tech, options |-> options, tft |-> tft, rl |-> rl]

Up(m) == m.prediction = 1

\* every other voice sides with the model
Aligned(m, c) ==
    Scenario(IF Up(m) THEN "POSITIVE" ELSE "NEGATIVE", m, Chain(c),
             Tft(IF Up(m) THEN 70 ELSE 30), Rl(IF Up(m) THEN 1 ELSE 2))

\* the temporal model contradicts, the rest abstain
Split(m) ==
    Scenario("NEUTRAL", m, Chain(EmptyChain), Tft(IF Up(m) THEN 30 ELSE 70), Rl(0))

\* the temporal model sides with the model, the rest abstain
Pair(m) ==
    Scenario("NEUTRAL", m, Chain(EmptyChain), Tft(IF Up(m) THEN 70 ELSE 30), Rl(0))

\* only the option chain sides with the model
Lean(m) ==
    Scenario("NEUTRAL", m, Chain(IF Up(m) THEN BullChain ELSE BearChain), Tft(50), Rl(0))

\* the aligned calm market with one producer missing or failing
Faulted ==
    LET s == Aligned(CalmMarket, BullChain)
    IN  {[s EXCEPT !.reply = "error"], [s EXCEPT !.options = [raises |-> TRUE, chain |-> <<>>]]}
        \cup {[s EXCEPT !.tech = TechFailure(k)] : k \in TechFailureKinds}
        \cup {[s EXCEPT !.tft = [kind |-> k, prob |-> 50]] : k \in TftFailureKinds}
        \cup {[s EXCEPT !.rl = [kind |-> k, action |-> 0]] : k \in RlFailureKinds}

Scenarios ==
    {Aligned(m, c) : m \in Markets, c \in Chains}
    \cup {Split(m) : m \in Markets}
    \cup {Lean(m) : m \in Markets}
    \cup {Pair(m) : m \in Markets}
    \cup Faulted

NoScenario == Split(CalmMarket)

Position(instrument, side, entry_price, stop_loss) ==
    [instrument |-> instrument, side |-> side, entry_price |-> entry_price,
     stop_loss |-> stop_loss]

PositionLists ==
    {<<>>,
     <<Position("CE", "BUY", 49900, 50000), Position("PE", "SELL", 50100, 50200)>>}

\* ---- the nodes
_coordinator(state) == Returns([k \in state.present |-> state[k]])

_sentiment_agent(state, reply) ==
    LET res_text == IF reply = "error" THEN "NEUTRAL" ELSE reply
    IN  Returns([sentiment_label |-> res_text,
                 sentiment_score |-> IF res_text = "POSITIVE" THEN SENT_POSITIVE
                                     ELSE IF res_text = "NEGATIVE" THEN -SENT_POSITIVE
                                     ELSE 0])

\* the narrative is kept as the sequence of the steps whose sentence it holds
_options_agent(state, kite, gex_engine, env) ==
    LET analysis == state.technical_analysis \o <<"options">>
    IN  IF ~kite THEN Returns([pcr |-> PCR_NEUTRAL, technical_analysis |-> analysis])
        ELSE IF env.raises THEN Raised
        ELSE IF gex_engine
          THEN Returns([pcr |-> chain_pcr(env.chain), technical_analysis |-> analysis,
                        gex_data |-> analyze_chain(env.chain)])
          ELSE Returns([pcr |-> chain_pcr(env.chain), technical_analysis |-> analysis])

\* the local names of _technical_agent that are bound when line 366 is reached
tech_success_bound(env) == env.kind # "import_error"
tech_success(env) == env.kind \notin {"import_error", "no_data"}
tech_causal_bound(env) == tech_success(env) /\ env.kind # "regime_raises"
tech_pred_bound(env) == tech_causal_bound(env) /\ env.kind # "causality_raises"
tech_pred_truthy(env) == env.kind = "pred"

_technical_agent(state, kite, env, price) ==
    LET ltp == IF kite THEN price ELSE 0
        ok == tech_pred_truthy(env)
        regime == IF ok THEN env.regime ELSE "NOMINAL"
        confidence == IF ok THEN env.confidence ELSE 0
    IN  IF ~tech_success_bound(env) THEN Raised
        ELSE IF tech_success(env) /\ ~tech_pred_bound(env) THEN Raised
        ELSE IF ~tech_causal_bound(env) THEN Raised
        ELSE Returns([technical_analysis |-> <<"technical">>,
                      ai_prediction |-> IF ok THEN (IF env.prediction = 1 THEN "UP" ELSE "DOWN")
                                        ELSE "UNKNOWN",
                      regime |-> regime,
                      confidence |-> confidence,
                      technical_context |->
                          [ltp |-> ltp, regime |-> regime, confidence |-> confidence,
                           causal_strength |-> env.causal, component_alpha |-> env.comp,
                           atr |-> IF ok THEN env.atr ELSE 0]])

_tft_agent(state, env) ==
    IF env.kind = "pipeline_raises" THEN Returns([tft_prediction |-> "NEUTRAL"])
    ELSE IF env.kind = "engine_missing"
      THEN Returns([tft_prediction |-> "NEUTRAL",
                    technical_analysis |-> state.technical_analysis \o <<"tft">>])
    ELSE IF env.kind = "predict_raises" THEN Raised
    ELSE Returns([tft_prediction |-> IF env.prob > 55 THEN "UP"
                                     ELSE IF env.prob < 45 THEN "DOWN" ELSE "NEUTRAL",
                  technical_analysis |-> state.technical_analysis \o <<"tft">>])

_rl_sniper(state, env) ==
    IF env.kind = "pipeline_raises" THEN Returns([rl_action |-> 0])
    ELSE IF env.kind = "agent_missing" THEN Returns([rl_action |-> 0])
    ELSE IF env.kind = "action_raises" THEN Raised
    ELSE Returns([rl_action |-> env.action])

get_risk_status_state_halting(breaker) == TRUE

\* the breaker flag of the engine after get_risk_status: the call only reads
get_risk_status_state(breaker) == breaker

_risk_auditor(state, breaker) == Returns([risk_approval |-> ~breaker])

req_score(regime, greedy) ==
    IF greedy THEN REQ_GREEDY
    ELSE IF regime \in {"NOMINAL", "RANGE_BOUND", "TRENDING_INTRADAY", "POWER_HOUR_TREND",
                        "LUNCH_LULL"} THEN REQ_NORMAL
    ELSE IF regime \in {"VOLATILE", "OPENING_VOLATILITY"} THEN REQ_VOLATILE
    ELSE REQ_STRICT

\* round(ltp / 100) * 100, halves to the even neighbour
round_strike(ltp) ==
    LET q == ltp \div 100
        r == ltp % 100
    IN  100 * (IF r < 50 THEN q
               ELSE IF r > 50 THEN q + 1
               ELSE IF q % 2 = 0 THEN q ELSE q + 1)

raw_signal_long_only(convergence_score) == "BUY"

\* the direction the aggregator submits for vetting
raw_signal(convergence_score) == IF convergence_score > 0 THEN "BUY" ELSE "SELL"

NoObs == [ran |-> FALSE, score |-> 0, req_score |-> 0, risk_safe |-> FALSE,
          vetted |-> FALSE, prob |-> PROB_DEFAULT, gate_allow |-> TRUE,
          final_signal |-> "HOLD"]

\* _aggregator: the update it returns and the values it passed through on the way
aggregate(state, meta_labeler, gex_engine, last) ==
    LET greedy == Get(state, "greedy", FALSE)
        regime == Get(state, "regime", "NOMINAL")
        risk_safe == state.risk_approval
        conv == calculate_convergence_score(
                    [tech_pred |-> state.ai_prediction,
                     tft_pred |-> Get(state, "tft_prediction", "NEUTRAL"),
                     rl_action |-> Get(state, "rl_action", 0),
                     sentiment_score |-> Get(state, "sentiment_score", 0),
                     pcr |-> Get(state, "pcr", PCR_NEUTRAL)])
        req == req_score(regime, greedy)
        entered == Abs(conv.score) >= req /\ risk_safe
        current_confidence == Get(state, "confidence", 0)
        tech_ctx == Get(state, "technical_context", EmptyCtx)
        gex_data == Get(state, "gex_data", NoGex)
        raw == raw_signal(conv.score)
        vetting == meta_labeler /\ ~greedy
        vet == IF vetting
                 THEN get_vetted_signal(raw, current_confidence, tech_ctx,
                                        tech_ctx.component_alpha, gex_data, META_THRESHOLD)
                 ELSE [signal |-> raw, prob |-> PROB_DEFAULT]
        gex_gate == IF gex_engine THEN get_safety_gate(last, vet.signal, tech_ctx.ltp)
                    ELSE [allow |-> TRUE, reason |-> "Path clear"]
        final_signal == IF entered /\ vet.signal # "HOLD" /\ gex_gate.allow
                          THEN vet.signal ELSE "HOLD"
        gated == IF ~entered THEN ""
                 ELSE IF final_signal # "HOLD" THEN "Vetted Alpha"
                 ELSE IF vet.signal = "HOLD" THEN "Signal Refused (Meta-Labeler)"
                 ELSE "GEX Block"
        ltp == state.technical_context.ltp
        atr == state.technical_context.atr
        exit_plan == IF final_signal # "HOLD"
                       THEN [attached |-> TRUE,
                             initial_sl |-> calculate_tsl(ltp, ltp, final_signal, atr, regime),
                             trailing_sl_active |-> TRUE,
                             targets |-> calculate_targets(ltp, final_signal, atr, NoPivots,
                                                           regime, gex_data)]
                       ELSE NoPlan
    IN  [update |->
            [final_signal |-> final_signal,
             confidence |-> current_confidence,
             model_scores |-> conv.details,
             trade_recommendation |->
                 [action |-> final_signal,
                  strike |-> IF final_signal # "HOLD" THEN round_strike(ltp) ELSE 0,
                  option_type |-> IF final_signal = "BUY" THEN "CE"
                                  ELSE IF final_signal = "SELL" THEN "PE" ELSE "N/A",
                  reasoning |-> IF ~risk_safe THEN "Trade Blocked by Risk Engine." ELSE gated,
                  exit_plan |-> exit_plan]],
         obs |->
            [ran |-> TRUE, score |-> conv.score, req_score |-> req, risk_safe |-> risk_safe,
             vetted |-> entered /\ vetting,
             prob |-> IF entered THEN vet.prob ELSE PROB_DEFAULT,
             gate_allow |-> IF entered THEN gex_gate.allow ELSE TRUE,
             final_signal |-> final_signal]]

_aggregator(state, meta_labeler, gex_engine, last) ==
    Returns(aggregate(state, meta_labeler, gex_engine, last).update)

exit_reason_strict(pos, ltp, regime) ==
    IF pos.side = "BUY"
      THEN IF ltp < pos.stop_loss THEN "Stop Loss Hit"
           ELSE IF regime = "CRASH" THEN "Regime Flip: CRASH detected"
           ELSE ""
      ELSE IF ltp > pos.stop_loss THEN "Stop Loss Hit" ELSE ""

exit_reason(pos, ltp, regime) ==
    IF pos.side = "BUY"
      THEN IF ltp <= pos.stop_loss THEN "Stop Loss Hit"
           ELSE IF regime = "CRASH" THEN "Regime Flip: CRASH detected"
           ELSE ""
      ELSE IF ltp >= pos.stop_loss THEN "Stop Loss Hit" ELSE ""

RECURSIVE exit_recommendations(_, _, _)
exit_recommendations(positions, ltp, regime) ==
    IF positions = <<>> THEN <<>>
    ELSE LET pos == Head(positions)
             reason == exit_reason(pos, ltp, regime)
         IN  (IF reason # "" THEN <<[instrument |-> pos.instrument, reason |-> reason]>>
                             ELSE <<>>)
             \o exit_recommendations(Tail(positions), ltp, regime)

_exit_monitor(state) ==
    Returns([exit_signals |->
                exit_recommendations(Get(state, "positions", <<>>),
                                     state.technical_context.ltp,
                                     Get(state, "regime", "NOMINAL"))])

\* ---- one run of the compiled graph: the nodes of a superstep read the same
\* channel values, their writes are applied when all of them have returned, and
\* the next superstep holds every node with an edge from a node that just ran.
\* A node sees no write of a node of its own superstep, so the nodes of a
\* superstep are taken in one fixed order.
Rank == [coordinator |-> 0, sentiment |-> 1, technical |-> 2, options |-> 3, tft |-> 4,
         rl_sniper |-> 5, risk |-> 6, aggregator |-> 7, exit_monitor |-> 8]

Ready(n) ==
    /\ gPhase = "running"
    /\ n \in gFrontier \ gRan
    /\ \A m \in gFrontier \ gRan : Rank[n] <= Rank[m]

\* the node returned its update, or raised and workflow.invoke raised with it
Finish(n, res, faulty) ==
    /\ gFaults' = IF faulty THEN gFaults \cup {n} ELSE gFaults
    /\ IF res.raised
         THEN gPhase' = "aborted" /\ UNCHANGED <<gRan, gNext>>
         ELSE /\ gPhase' = gPhase
              /\ gRan' = gRan \cup {n}
              /\ gNext' = Merge(gNext, res.update)

IlConfigs == {[kite |-> TRUE, meta_labeler |-> TRUE, gex_engine |-> TRUE],
              [kite |-> FALSE, meta_labeler |-> TRUE, gex_engine |-> TRUE],
              [kite |-> TRUE, meta_labeler |-> FALSE, gex_engine |-> FALSE]}

RunAnalysis ==
    \E positions \in PositionLists, greedy \in BOOLEAN, world \in Scenarios,
       price \in LtpChoices :
        /\ gPhase = "idle"
        /\ gEnv' = [world |-> world, price |-> price]
        /\ gInput' = [positions |-> positions, greedy |-> greedy]
        /\ gState' = Merge(BlankState, initial_state(positions, greedy))
        /\ gNext' = Merge(BlankState, initial_state(positions, greedy))
        /\ gPhase' = "running"
        /\ gFrontier' = {"coordinator"}
        /\ gRan' = {}
        /\ gDone' = {}
        /\ gFaults' = {}
        /\ aggObs' = NoObs
        /\ gJoined' = FALSE
        /\ UNCHANGED <<il, riskVars, ksVars, lastCall, wdVars>>

Coordinator ==
    /\ Ready("coordinator")
    /\ Finish("coordinator", _coordinator(gState), FALSE)
    /\ UNCHANGED <<il, gFrontier, gDone, gState, gInput, gEnv, aggObs, gJoined,
                   riskVars, ksVars, lastCall, wdVars>>

SentimentAgent ==
    LET reply == gEnv.world.reply
    IN  /\ Ready("sentiment")
        /\ Finish("sentiment", _sentiment_agent(gState, reply), reply = "error")
        /\ UNCHANGED <<il, gFrontier, gDone, gState, gInput, gEnv, aggObs, gJoined,
                       riskVars, ksVars, lastCall, wdVars>>

TechnicalAgent ==
    LET env == gEnv.world.tech
    IN  /\ Ready("technical")
        /\ Finish("technical", _technical_agent(gState, il.kite, env, gEnv.price),
                  env.kind # "pred")
        /\ UNCHANGED <<il, gFrontier, gDone, gState, gInput, gEnv, aggObs, gJoined,
                       riskVars, ksVars, lastCall, wdVars>>

OptionsAgent ==
    LET env == gEnv.world.options IN
        /\ Ready("options")
        /\ Finish("options", _options_agent(gState, il.kite, il.gex_engine, env),
                  ~il.kite \/ env.raises)
        /\ il' = IF il.kite /\ ~env.raises /\ il.gex_engine
                   THEN [il EXCEPT !.last_analysis = last_analysis_after(@, env.chain)]
                   ELSE il
        /\ UNCHANGED <<gFrontier, gDone, gState, gInput, gEnv, aggObs, gJoined,
                       riskVars, ksVars, lastCall, wdVars>>

TftAgent ==
    LET env == gEnv.world.tft IN
        /\ Ready("tft")
        /\ Finish("tft", _tft_agent(gState, env), env.kind # "prob")
        /\ UNCHANGED <<il, gFrontier, gDone, gState, gInput, gEnv, aggObs, gJoined,
                       riskVars, ksVars, lastCall, wdVars>>

RlSniper ==
    LET env == gEnv.world.rl IN
        /\ Ready("rl_sniper")
        /\ Finish("rl_sniper", _rl_sniper(gState, env), env.kind # "action")
        /\ UNCHANGED <<il, gFrontier, gDone, gState, gInput, gEnv, aggObs, gJoined,
                       riskVars, ksVars, lastCall, wdVars>>

RiskAuditor ==
    /\ Ready("risk")
    /\ Finish("risk", _risk_auditor(gState, il.breaker), FALSE)
    /\ il' = [il EXCEPT !.breaker = get_risk_status_state(@)]
    /\ UNCHANGED <<gFrontier, gDone, gState, gInput, gEnv, aggObs, gJoined,
                   riskVars, ksVars, lastCall, wdVars>>

Aggregator ==
    /\ Ready("aggregator")
    /\ Finish("aggregator",
              _aggregator(gState, il.meta_labeler, il.gex_engine, il.last_analysis), FALSE)
    /\ aggObs' = aggregate(gState, il.meta_labeler, il.gex_engine, il.last_analysis).obs
    /\ UNCHANGED <<il, gFrontier, gDone, gState, gInput, gEnv, gJoined,
                   riskVars, ksVars, lastCall, wdVars>>

ExitMonitor ==
    /\ Ready("exit_monitor")
    /\ Finish("exit_monitor", _exit_monitor(gState), FALSE)
    /\ UNCHANGED <<il, gFrontier, gDone, gState, gInput, gEnv, aggObs, gJoined,
                   riskVars, ksVars, lastCall, wdVars>>

\* the signal-gathering steps
Gatherers == {"sentiment", "technical", "options", "tft", "rl_sniper"}

Successors(S) == {e[2] : e \in {d \in Edges : d[1] \in S}}

\* the end of a superstep; the run returns when no node is scheduled
Superstep ==
    /\ gPhase = "running"
    /\ gRan = gFrontier
    /\ gState' = gNext
    /\ gDone' = gDone \cup gFrontier
    /\ gFrontier' = Successors(gFrontier)
    /\ gRan' = {}
    /\ gPhase' = IF Successors(gFrontier) = {} THEN "done" ELSE "running"
    /\ gJoined' = (gJoined \/ ("risk" \in gFrontier /\ Gatherers \subseteq gDone))
    /\ UNCHANGED <<il, gNext, gInput, gEnv, gFaults, aggObs,
                   riskVars, ksVars, lastCall, wdVars>>

\* run_analysis hands the final state to its caller, or the exception of the node
\* that raised; the IntelligenceLayer keeps what its components hold
ReturnResult ==
    /\ gPhase \in {"done", "aborted"}
    /\ gPhase' = "idle"
    /\ gFrontier' = {}
    /\ gRan' = {}
    /\ gDone' = {}
    /\ gState' = BlankState
    /\ gNext' = BlankState
    /\ gInput' = [positions |-> <<>>, greedy |-> FALSE]
    /\ gEnv' = [world |-> NoScenario, price |-> 0]
    /\ gFaults' = {}
    /\ aggObs' = NoObs
    /\ gJoined' = FALSE
    /\ UNCHANGED <<il, riskVars, ksVars, lastCall, wdVars>>

\* trigger_circuit_breaker on the RiskEngine the IntelligenceLayer holds, between runs
IlTriggerCircuitBreaker ==
    \E active \in BOOLEAN :
        /\ gPhase = "idle"
        /\ il' = [il EXCEPT !.breaker = active]
        /\ UNCHANGED <<gPhase, gFrontier, gRan, gDone, gState, gNext, gInput, gEnv,
                       gFaults, aggObs, gJoined, riskVars, ksVars, lastCall, wdVars>>

\* the IntelligenceLayer as constructed, no run started
GraphBoot ==
    /\ il \in {[kite |-> c.kite, meta_labeler |-> c.meta_labeler,
                gex_engine |-> c.gex_engine, breaker |-> FALSE,
                last_analysis |-> NoGex] : c \in IlConfigs}
    /\ gPhase = "idle"
    /\ gFrontier = {}
    /\ gRan = {}
    /\ gDone = {}
    /\ gState = BlankState
    /\ gNext = BlankState
    /\ gInput = [positions |-> <<>>, greedy |-> FALSE]
    /\ gEnv = [world |-> NoScenario, price |-> 0]
    /\ gFaults = {}
    /\ aggObs = NoObs
    /\ gJoined = FALSE

GraphIdle == GraphBoot /\ il.kite /\ il.meta_labeler /\ il.gex_engine

----------------------------------------------------------------------------
RiskInit ==
    /\ daily_loss_limit \in LimitChoices
    /\ max_position_size \in PositionChoices
    /\ current_daily_loss = 0
    /\ circuit_breaker_active = FALSE
    /\ lossesPassed = 0
    /\ resetLast = FALSE
    /\ rCalls = [t \in RiskThreads |-> NoRiskCall]
    /\ returnedLosses = 0

KsInit ==
    /\ marker = NoMarker
    /\ ksInstances = [p \in Procs |-> 0]
    /\ instAtActivate = [p \in Procs |-> 0]
    /\ ksCalls = [p \in Procs |-> NoKsCall]
    /\ ksLastWrite = "none"
    /\ ksRaised = FALSE

WdInit ==
    /\ now = 0
    /\ heartbeat = [u \in Users |-> NoBeat]
    /\ settings = [u \in Users |-> "none"]
    /\ active_auto_users = {}
    /\ usRead = [u \in Users |-> "idle"]
    /\ nextWake = 0
    /\ wdCall = NoCall

Init == RiskInit /\ KsInit /\ lastCall = NoCall /\ WdInit /\ GraphIdle

\* the RiskEngine as main.py constructs it, idle
RiskIdle == RiskInit /\ daily_loss_limit = 10

Next ==
    \/ ValidateOrder
    \/ ExecuteAutopilot
    \/ UpdatePnl
    \/ TriggerCircuitBreaker
    \/ NewKillSwitch
    \/ Activate
    \/ Deactivate
    \/ IsActive
    \/ GetStatus

Spec == Init /\ [][Next]_vars

\* The store under the monitor's operations and the endpoints
WatchdogNext ==
    \/ Tick
    \/ RecordHeartbeat
    \/ CheckWatchdog
    \/ SetExecutionMode
    \/ UpdateSettings
    \/ UpdateSettingsRead
    \/ UpdateSettingsWrite
    \/ UpdateSettingsDenied

WatchdogInit == RiskIdle /\ KsInit /\ lastCall = NoCall /\ WdInit /\ GraphIdle

WatchdogSpec == WatchdogInit /\ [][WatchdogNext]_vars

----------------------------------------------------------------------------
\* Claims about RiskEngine and KillSwitch (checked under Spec)

\* a rejection reason that names the kill switch
ContainsKillSwitch(reason) == reason \in {"KILL SWITCH ACTIVE. Trading halted."}

Compliant(o) == order_value(o) <= max_position_size

\* C1: while the kill-switch marker is present, validate_order rejects every order
\* with a reason containing "KILL SWITCH", whatever the RiskState is.
C1_KillSwitchBlocksOrders ==
    (lastCall.name = "validate_order" /\ is_active)
        => (~lastCall.result.allowed /\ ContainsKillSwitch(lastCall.result.reason))

\* C2: once the losses passed to update_pnl total the limit or more, validate_order
\* rejects every order; right after trigger_circuit_breaker(active=False) it allows
\* every order whose value is within max_position_size.
C2_LimitThenResetRestores ==
    lastCall.name = "validate_order" =>
        /\ (lossesPassed >= daily_loss_limit /\ ~resetLast) => ~lastCall.result.allowed
        /\ (resetLast /\ Compliant(lastCall.order)) => lastCall.result.allowed

\* C3: activate() leaves the marker present; while it is present and until deactivate()
\* is called, is_active() returns true in every instance, those created later included;
\* deactivate() leaves it absent, and get_status() then reports NOMINAL.
C3_MarkerPersistsUntilDeactivate ==
    [][ /\ lastCall'.name = "activate" => is_active'
        /\ (is_active /\ lastCall'.name # "deactivate") => is_active'
        /\ (lastCall'.name = "is_active" /\ marker'.present) => lastCall'.result = TRUE
        /\ lastCall'.name = "deactivate" => ~is_active'
        /\ (lastCall'.name = "get_status" /\ ~marker'.present)
              => lastCall'.result.status = "NOMINAL" ]_vars

\* an instance created after the activation reads the marker as active
C3_Witness ==
    /\ lastCall.name = "is_active"
    /\ lastCall.result = TRUE
    /\ ksInstances[lastCall.proc] > instAtActivate[lastCall.proc]

----------------------------------------------------------------------------
\* Claims about the liveness watchdog

\* the last heartbeat of u is at most the timeout old
Fresh(u) == heartbeat[u] # NoBeat /\ now - heartbeat[u] <= TIMEOUT_SECONDS

\* C4: one check_watchdog() call removes every principal that was in the
\* active-autonomous set with a missing or too old heartbeat from the set and leaves
\* its stored trading mode at MANUAL, whatever its settings record held.
C4_StaleRemovedAndManual ==
    wdCall.name = "check_watchdog" =>
        \A u \in wdCall.stale : u \notin active_auto_users /\ settings[u] = "MANUAL"

\* C5: check_watchdog() leaves every heartbeat unchanged, and leaves the set
\* membership and the stored mode of every principal unchanged whose heartbeat is at
\* most 30 s old or who is not in the active-autonomous set.
C5_FreshUntouched ==
    [][ wdCall'.name = "check_watchdog" =>
          /\ heartbeat' = heartbeat
          /\ \A u \in Users : (Fresh(u) \/ u \notin active_auto_users) =>
                /\ (u \in active_auto_users') = (u \in active_auto_users)
                /\ settings'[u] = settings[u] ]_vars

\* a call that found a silent principal and left one with a heartbeat exactly at the
\* timeout in the set, in AUTO
C5_Witness ==
    /\ wdCall.name = "check_watchdog"
    /\ wdCall.stale # {}
    /\ \E u \in active_auto_users :
          /\ heartbeat[u] # NoBeat /\ now - heartbeat[u] = TIMEOUT_SECONDS
          /\ settings[u] = "AUTO"

\* The running service (main.py): the endpoints, the clock and the watchdog task
ServiceNext ==
    \/ ServiceTick
    \/ RunWatchdog
    \/ SetExecutionMode
    \/ UpdateSettings
    \/ UpdateSettingsRead
    \/ UpdateSettingsWrite
    \/ UpdateSettingsDenied

ServiceSpec == WatchdogInit /\ [][ServiceNext]_vars

\* C6: in the running service a principal in AUTO mode, or in the active-autonomous
\* set, never stays so for longer than the watchdog poll interval plus the heartbeat
\* timeout after its last heartbeat.
C6_DeadManSwitchBound ==
    \A u \in Users : (settings[u] = "AUTO" \/ u \in active_auto_users) =>
        /\ heartbeat[u] # NoBeat
        /\ now - heartbeat[u] <= WATCHDOG_SLEEP + TIMEOUT_SECONDS

----------------------------------------------------------------------------
\* The committee workflow
GraphNext ==
    \/ RunAnalysis
    \/ Coordinator
    \/ SentimentAgent
    \/ TechnicalAgent
    \/ OptionsAgent
    \/ TftAgent
    \/ RlSniper
    \/ RiskAuditor
    \/ Aggregator
    \/ ExitMonitor
    \/ Superstep
    \/ ReturnResult
    \/ IlTriggerCircuitBreaker

GraphInit == RiskIdle /\ KsInit /\ lastCall = NoCall /\ WdInit /\ GraphBoot

GraphSpec == GraphInit /\ [][GraphNext]_vars

\* C7: every execution of the risk node starts only after the sentiment, technical,
\* options, tft and rl_sniper nodes of the run have all completed, and neither the
\* aggregator nor the exit monitor runs before such a join has completed
C7_RiskJoinsAllBranches ==
    gPhase = "running" =>
        /\ "risk" \in gFrontier => Gatherers \subseteq gDone
        /\ (gFrontier \cap {"aggregator", "exit_monitor"}) # {} => gJoined

NeutralDefault(n) ==
    /\ n = "sentiment" => gState.sentiment_label = "NEUTRAL" /\ gState.sentiment_score = 0
    /\ n = "technical" => gState.ai_prediction = "UNKNOWN" /\ gState.confidence = 0
    /\ n = "options" => gState.pcr = PCR_NEUTRAL
    /\ n = "tft" => gState.tft_prediction = "NEUTRAL"
    /\ n = "rl_sniper" => gState.rl_action = 0

\* C8: when the producer of exactly one step is missing or raises, the run is
\* not aborted and returns a decision in which that step has its neutral default
C8_FailureYieldsNeutralDefault ==
    Cardinality(gFaults) = 1 =>
        /\ gPhase # "aborted"
        /\ gPhase = "done" => \A n \in gFaults : NeutralDefault(n)

\* C9: a run that returns BUY or SELL returns an exit plan with an initial
\* stop-loss, at least one target and the trailing-stop flag
C9_EntryHasExitPlan ==
    (gPhase = "done" /\ gState.final_signal \in {"BUY", "SELL"}) =>
        LET plan == gState.trade_recommendation.exit_plan
        IN  /\ plan.attached
            /\ Len(plan.targets) >= 1
            /\ plan.trailing_sl_active

C9_Witness ==
    /\ gPhase = "done"
    /\ gState.final_signal = "SELL"
    /\ gState.trade_recommendation.exit_plan.attached
    /\ gState.trade_recommendation.exit_plan.initial_sl > gState.technical_context.ltp
    /\ Len(gState.trade_recommendation.exit_plan.targets) = 2

\* C10: the aggregator emits BUY or SELL only if the magnitude of the score
\* reaches the required score, risk_approval is true, the success probability is
\* at least 0.65 when the meta-labeler is loaded and the run is not aggressive,
\* and the options-wall gate allows it; the returned action is the aggregator's
C10_EntryOnlyWhenAllGatesPass ==
    /\ aggObs.final_signal \in {"BUY", "SELL"} =>
          /\ Abs(aggObs.score) >= aggObs.req_score
          /\ aggObs.risk_safe
          /\ (il.meta_labeler /\ ~gInput.greedy) => aggObs.prob >= META_THRESHOLD
          /\ aggObs.gate_allow
    /\ gPhase = "done" => gState.final_signal = aggObs.final_signal

C10_Witness ==
    /\ gPhase = "done"
    /\ gState.final_signal = "BUY"
    /\ aggObs.vetted
    /\ aggObs.prob >= META_THRESHOLD
    /\ aggObs.prob < PROB_DEFAULT
    /\ il.last_analysis.present

C11_WitnessSell ==
    /\ gPhase = "done"
    /\ aggObs.score < 0
    /\ Abs(aggObs.score) >= aggObs.req_score
    /\ aggObs.prob >= META_THRESHOLD
    /\ gState.final_signal = "SELL"
    /\ Len(gState.trade_recommendation.exit_plan.targets) >= 1

\* the required score the classifier's labels are meant to get: 0.3 for the
\* nominal, range-bound, trending, power-hour and lunch-lull regimes, 0.5 for
\* the volatile and opening regimes, 0.7 for every other label
StatedRequiredScore(regime) ==
    IF regime \in {"NOMINAL", "RANGE_BOUND", "TRENDING_INTRADAY", "POWER_HOUR", "LUNCH_LULL"}
      THEN REQ_NORMAL
    ELSE IF regime \in {"VOLATILE", "OPENING_VOLATILITY"} THEN REQ_VOLATILE
    ELSE REQ_STRICT

\* C12: without aggressive mode the aggregator requires 0.3 for NOMINAL,
\* RANGE_BOUND, TRENDING, POWER_HOUR and LUNCH_LULL, 0.5 for VOLATILE and
\* OPENING_VOLATILE, and 0.7 for every other label, for the label as the regime
\* classifier emits it and the snapshot carries it
C12_RequiredScoreByRegime ==
    (aggObs.ran /\ ~gInput.greedy) =>
        aggObs.req_score = StatedRequiredScore(Get(gState, "regime", "NOMINAL"))

\* C13: a run started with greedy = TRUE applies the required score 0.1 in the
\* aggregator for every regime: the flag given to run_analysis is the one the
\* aggregator reads
C13_GreedyReachesAggregator ==
    aggObs.ran =>
        /\ Get(gState, "greedy", FALSE) = gInput.greedy
        /\ gInput.greedy => aggObs.req_score = REQ_GREEDY

\* C14: validate_order allows an order exactly when the breaker is inactive,
\* the daily loss is below the limit and quantity x price is at most
\* max_position_size; no order whose notional exceeds the maximum is allowed,
\* the market orders of the autopilot path included
C14_NotionalNeverExceedsMax ==
    /\ lastCall.name = "validate_order" =>
          (lastCall.result.allowed <=>
              /\ ~circuit_breaker_active
              /\ current_daily_loss < daily_loss_limit
              /\ lastCall.order.quantity * OrderGet(lastCall.order.price) <= max_position_size)
    /\ (lastCall.name = "execute_autopilot" /\ lastCall.status = "EXECUTED") =>
          lastCall.order.quantity * lastCall.fill_price <= max_position_size

\* C15: after any sequence of update_pnl calls current_daily_loss is the sum of
\* the magnitudes of the negative PnL values passed, it never decreases, and
\* right after an update_pnl that leaves it at or above the limit the breaker
\* is active
C15_LossAccumulates ==
    /\ [](/\ current_daily_loss = lossesPassed
          /\ (lastCall.name = "update_pnl" /\ current_daily_loss >= daily_loss_limit)
                => circuit_breaker_active)
    /\ [][current_daily_loss' >= current_daily_loss]_vars

C15_Witness ==
    /\ lastCall.name = "update_pnl"
    /\ lastCall.pnl = -3
    /\ daily_loss_limit = 10
    /\ current_daily_loss = 11
    /\ circuit_breaker_active

----------------------------------------------------------------------------
\* StrategyOptimizer.calculate_convergence_score applied to signal dictionaries
\* whose entries were produced in different orders (checked under ScoreSpec)

\* a dictionary as the sequence of its (key, value) entries in insertion order
TechChoices == {"UP", "DOWN", "UNKNOWN"}
TftChoices == {"UP", "DOWN", "NEUTRAL"}
RlChoices == {0, 1, 2}
SentimentChoices == {-75, 0, 80, 200}
PcrChoices == {70, 85, 100, 115, 130}

SignalOrders == {<<1, 2, 3, 4, 5>>, <<5, 4, 3, 2, 1>>, <<3, 1, 5, 2, 4>>, <<2, 5, 1, 4, 3>>}

Entries(tech, tft, rl, sent, pcr) ==
    <<<<"tech_pred", tech>>, <<"tft_pred", tft>>, <<"rl_action", rl>>,
      <<"sentiment_score", sent>>, <<"pcr", pcr>>>>

Reorder(signals, order) == [i \in 1..Len(signals) |-> signals[order[i]]]

SignalDicts ==
    {Reorder(Entries(tech, tft, rl, sent, pcr), order) :
        tech \in TechChoices, tft \in TftChoices, rl \in RlChoices,
        sent \in SentimentChoices, pcr \in PcrChoices, order \in SignalOrders}

signals_get_default(signals, key, default) == default

\* signals.get(key, default)
signals_get(signals, key, default) ==
    IF \E i \in 1..Len(signals) : signals[i][1] = key
      THEN signals[CHOOSE i \in 1..Len(signals) : signals[i][1] = key][2]
      ELSE default

\* calculate_convergence_score on a dictionary
convergence_score(signals) ==
    calculate_convergence_score(
        [tech_pred |-> signals_get(signals, "tech_pred", "None"),
         tft_pred |-> signals_get(signals, "tft_pred", "None"),
         rl_action |-> signals_get(signals, "rl_action", -1),
         sentiment_score |-> signals_get(signals, "sentiment_score", 0),
         pcr |-> signals_get(signals, "pcr", PCR_NEUTRAL)])

CalculateConvergenceScore ==
    /\ lastCall.name = "signals"
    /\ lastCall' = [name |-> "calculate_convergence_score", signals |-> lastCall.signals,
                    score |-> convergence_score(lastCall.signals).score,
                    details |-> convergence_score(lastCall.signals).details]
    /\ UNCHANGED <<riskVars, ksVars, wdVars, graphVars>>

ScoreInit ==
    /\ RiskIdle /\ KsInit /\ WdInit /\ GraphIdle
    /\ lastCall \in {[name |-> "signals", signals |-> d] : d \in SignalDicts}

ScoreNext == CalculateConvergenceScore

ScoreSpec == ScoreInit /\ [][ScoreNext]_vars

\* the value the dictionary holds under a key, whatever the order of its entries
Held(signals, key) == (CHOOSE e \in {signals[i] : i \in 1..Len(signals)} : e[1] = key)[2]

Signed(up, down, weight) == IF up THEN weight ELSE IF down THEN -weight ELSE 0

\* +-0.40 (tech UP/DOWN) +-0.20 (tft UP/DOWN) +-0.15 (rl 1/2) + 0.15 x sentiment
\* +-0.10 (PCR < 0.85 / > 1.15), in 1/10000
StatedScore(signals) ==
    Signed(Held(signals, "tech_pred") = "UP", Held(signals, "tech_pred") = "DOWN", 4000)
    + Signed(Held(signals, "tft_pred") = "UP", Held(signals, "tft_pred") = "DOWN", 2000)
    + Signed(Held(signals, "rl_action") = 1, Held(signals, "rl_action") = 2, 1500)
    + 15 * Held(signals, "sentiment_score")
    + Signed(Held(signals, "pcr") < 85, Held(signals, "pcr") > 115, 1000)

SameEntries(a, b) == {a[i] : i \in 1..Len(a)} = {b[i] : i \in 1..Len(b)}

\* C16: the convergence score is determined by the signal values alone,
\* whatever the order in which they were produced: +-0.40 +-0.20 +-0.15
\* + 0.15 x sentiment +-0.10 with no clamping; for UP, UP, 1, 0.8, 0.7 it is at
\* least 0.97
C16_ScoreIsOrderFreeSum ==
    lastCall.name = "calculate_convergence_score" =>
        /\ lastCall.score = StatedScore(lastCall.signals)
        /\ \A order \in SignalOrders :
              convergence_score(Reorder(lastCall.signals, order)).score = lastCall.score
        /\ SameEntries(lastCall.signals, Entries("UP", "UP", 1, 80, 70)) => lastCall.score >= 9700

C16_Witness ==
    /\ lastCall.name = "calculate_convergence_score"
    /\ lastCall.signals = Reorder(Entries("UP", "UP", 1, 80, 70), <<3, 1, 5, 2, 4>>)
    /\ lastCall.score = 9700

C16_WitnessUnclamped ==
    /\ lastCall.name = "calculate_convergence_score"
    /\ lastCall.score = 11500

\* C17: the breakdown returned with the score holds each factor's signed
\* contribution, so its entries sum to the score for every input
C17_BreakdownSumsToScore ==
    lastCall.name = "calculate_convergence_score" =>
        100 * (lastCall.details.technical + lastCall.details.tft + lastCall.details.rl
               + lastCall.details.sentiment + lastCall.details.options) = lastCall.score

----------------------------------------------------------------------------
\* MetaLabeler.vet_signal and get_vetted_signal applied to one signal at two
\* base confidences (checked under MetaSpec)

VetSignals == {"BUY", "SELL", "HOLD"}
VetConfidences == {0, 40, 60, 61, 62, 100}
VetRegimes == {"NOMINAL", "TRENDING_INTRADAY", "RANGE_BOUND", "OPENING_VOLATILITY"}
VetCausal == {20, 50, 80}
VetComponents == {-80, 0, 80}

Ctx(regime, causal, comp) ==
    [ltp |-> 50000, regime |-> regime, confidence |-> 0, causal_strength |-> causal,
     component_alpha |-> comp, atr |-> 100]

\* no chain, a chain with both walls within 40 points, contrarian ratios
VetGex ==
    {NoGex,
     [present |-> TRUE, call_wall |-> 50020, put_wall |-> 49990, pcr |-> 130],
     [present |-> TRUE, call_wall |-> 51000, put_wall |-> 49000, pcr |-> 70]}

VetInputs ==
    {[name |-> "vet_inputs", signal |-> sg, low |-> lo, high |-> hi,
      tech_ctx |-> Ctx(rg, ca, co), gex_data |-> gx] :
        sg \in VetSignals, lo \in VetConfidences, hi \in VetConfidences,
        rg \in VetRegimes, ca \in VetCausal, co \in VetComponents, gx \in VetGex}

VetSignal ==
    /\ lastCall.name = "vet_inputs"
    /\ lastCall' =
          LET in == lastCall
              alpha == in.tech_ctx.component_alpha
          IN  [name |-> "vet_signal", signal |-> in.signal, low |-> in.low, high |-> in.high,
               tech_ctx |-> in.tech_ctx, gex_data |-> in.gex_data,
               prob_low |-> vet_signal(in.signal, in.low, in.tech_ctx, alpha, in.gex_data),
               prob_high |-> vet_signal(in.signal, in.high, in.tech_ctx, alpha, in.gex_data),
               vetted_low |-> get_vetted_signal(in.signal, in.low, in.tech_ctx, alpha,
                                                in.gex_data, META_THRESHOLD).signal,
               vetted_high |-> get_vetted_signal(in.signal, in.high, in.tech_ctx, alpha,
                                                 in.gex_data, META_THRESHOLD).signal]
    /\ UNCHANGED <<riskVars, ksVars, wdVars, graphVars>>

MetaInit ==
    /\ RiskIdle /\ KsInit /\ WdInit /\ GraphIdle
    /\ lastCall \in {in \in VetInputs : in.low <= in.high}

MetaNext == VetSignal

MetaSpec == MetaInit /\ [][MetaNext]_vars

\* C18: for fixed other inputs the success probability does not decrease when
\* the base confidence increases, and a signal that passes vetting at one
\* confidence is not turned into HOLD at a higher one
C18_VettingMonotone ==
    lastCall.name = "vet_signal" =>
        /\ lastCall.prob_low <= lastCall.prob_high
        /\ lastCall.vetted_low # "HOLD" => lastCall.vetted_high = lastCall.vetted_low

C18_Witness ==
    /\ lastCall.name = "vet_signal"
    /\ lastCall.low < lastCall.high
    /\ lastCall.tech_ctx.regime = "TRENDING_INTRADAY"
    /\ lastCall.vetted_low = "SELL"
    /\ lastCall.vetted_high = "SELL"
    /\ lastCall.prob_low < lastCall.prob_high

----------------------------------------------------------------------------
\* GEXEngine.get_safety_gate applied to a stored analysis, a signal and a spot
\* price (checked under GateSpec)

GateSignals == {"BUY", "SELL", "HOLD"}
WallOffsets == {-100, -31, -30, -29, -10, 0, 10, 29, 30, 31, 100}

\* last_analysis: empty, or the walls of a wide and of a narrow chain
GateAnalyses == {NoGex, analyze_chain(BullChain), analyze_chain(NearChain)}

GatePrices(last) ==
    {last.call_wall + d : d \in WallOffsets} \cup {last.put_wall + d : d \in WallOffsets}

GateInputs ==
    {[name |-> "gate_inputs", last_analysis |-> la, signal |-> sg, spot_price |-> pr] :
        la \in GateAnalyses, sg \in GateSignals,
        pr \in UNION {GatePrices(a) : a \in GateAnalyses \ {NoGex}}}

GetSafetyGate ==
    /\ lastCall.name = "gate_inputs"
    /\ lastCall' = [name |-> "get_safety_gate", last_analysis |-> lastCall.last_analysis,
                    signal |-> lastCall.signal, spot_price |-> lastCall.spot_price,
                    result |-> get_safety_gate(lastCall.last_analysis, lastCall.signal,
                                               lastCall.spot_price)]
    /\ UNCHANGED <<riskVars, ksVars, wdVars, graphVars>>

GateInit ==
    /\ RiskIdle /\ KsInit /\ WdInit /\ GraphIdle
    /\ lastCall \in GateInputs

GateNext == GetSafetyGate

GateSpec == GateInit /\ [][GateNext]_vars

\* C19: with wall data present the gate denies BUY exactly when the price is
\* above callWall - 30, denies SELL exactly when it is below putWall + 30 and
\* allows everything else, HOLD included; BUY at callWall - 10 is denied and BUY
\* at callWall - 100 is allowed
C19_GateDeniesNearWalls ==
    (lastCall.name = "get_safety_gate" /\ lastCall.last_analysis.present) =>
        LET callWall == lastCall.last_analysis.call_wall
            putWall == lastCall.last_analysis.put_wall
            price == lastCall.spot_price
            denied == ~lastCall.result.allow
        IN  /\ lastCall.signal = "BUY" => (denied <=> price > callWall - 30)
            /\ lastCall.signal = "SELL" => (denied <=> price < putWall + 30)
            /\ lastCall.signal = "HOLD" => ~denied
            /\ (lastCall.signal = "BUY" /\ price = callWall - 10) => denied
            /\ (lastCall.signal = "BUY" /\ price = callWall - 100) => ~denied

C19_Witness ==
    /\ lastCall.name = "get_safety_gate"
    /\ lastCall.last_analysis.present
    /\ lastCall.signal = "BUY"
    /\ lastCall.spot_price = lastCall.last_analysis.call_wall - 10
    /\ ~lastCall.result.allow

C19_WitnessBoundary ==
    /\ lastCall.name = "get_safety_gate"
    /\ lastCall.last_analysis.present
    /\ lastCall.signal = "SELL"
    /\ lastCall.spot_price = lastCall.last_analysis.put_wall + 30
    /\ lastCall.result.allow

----------------------------------------------------------------------------
\* Claims about the engine's stored analysis across runs (checked under GraphSpec)

\* the options agent of the current run handed an empty chain to analyze_chain
EmptyChainAnalysed ==
    /\ "options" \in gRan \cup gDone
    /\ il.kite /\ il.gex_engine
    /\ ~gEnv.world.options.raises
    /\ gEnv.world.options.chain = EmptyChain

\* C20: when no wall data is available for the current analysis (no chain
\* analysed yet, or the most recent analyze_chain received an empty chain) the
\* safety gate allows every signal, after any sequence of earlier analyze_chain
\* calls and runs on the same engine
C20_GateFailsOpenWithoutWalls ==
    /\ (aggObs.ran /\ EmptyChainAnalysed) => aggObs.gate_allow
    /\ EmptyChainAnalysed =>
          \A sg \in GateSignals : get_safety_gate(il.last_analysis, sg, gEnv.price).allow

----------------------------------------------------------------------------
\* StrategyOptimizer.calculate_targets applied to one price, side, ATR, regime,
\* pivot set and wall analysis (checked under TargetSpec)

TargetPrices == {50000}
TargetSides == {"BUY", "SELL"}
TargetAtrs == {0, 100, 200}
TargetRegimes == {"TRENDING_INTRADAY", "NOMINAL", "VOLATILE", "RANGE_BOUND"}

\* no pivots, pivots apart from the ATR targets, a first pivot on an ATR target
TargetPivots ==
    {NoPivots,
     [R1 |-> 50100, R2 |-> 50400, S1 |-> 49900, S2 |-> 49600],
     [R1 |-> 50150, R2 |-> 0, S1 |-> 49850, S2 |-> 0]}

Walls(call_wall, put_wall) ==
    [present |-> TRUE, call_wall |-> call_wall, put_wall |-> put_wall, pcr |-> PCR_NEUTRAL]

\* no analysis, walls close to the price, far from it, and on the wrong side
TargetGex == {NoGex, Walls(50100, 49900), Walls(51000, 49000), Walls(49000, 51000)}

TargetInputs ==
    {[name |-> "target_inputs", price |-> pr, side |-> sd, atr |-> at, pivot_levels |-> pv,
      regime |-> rg, gex_data |-> gx] :
        pr \in TargetPrices, sd \in TargetSides, at \in TargetAtrs, pv \in TargetPivots,
        rg \in TargetRegimes, gx \in TargetGex}

CalculateTargets ==
    /\ lastCall.name = "target_inputs"
    /\ lastCall' = [name |-> "calculate_targets", price |-> lastCall.price,
                    side |-> lastCall.side, atr |-> lastCall.atr,
                    pivot_levels |-> lastCall.pivot_levels, regime |-> lastCall.regime,
                    gex_data |-> lastCall.gex_data,
                    targets |-> calculate_targets(lastCall.price, lastCall.side, lastCall.atr,
                                                  lastCall.pivot_levels, lastCall.regime,
                                                  lastCall.gex_data)]
    /\ UNCHANGED <<riskVars, ksVars, wdVars, graphVars>>

TargetInit ==
    /\ RiskIdle /\ KsInit /\ WdInit /\ GraphIdle
    /\ lastCall \in TargetInputs

TargetNext == CalculateTargets

TargetSpec == TargetInit /\ [][TargetNext]_vars

\* the two ATR targets as the claim states them: 3 and 5 ATR in a trending
\* regime, 1.5 and 2.5 ATR otherwise, nearest first, a repeated value once
StatedTargets(price, side, atr, regime) ==
    LET near == IF regime = "TRENDING_INTRADAY" THEN 3 * atr ELSE (3 * atr) \div 2
        far == IF regime = "TRENDING_INTRADAY" THEN 5 * atr ELSE (5 * atr) \div 2
        a == IF side = "BUY" THEN price + near ELSE price - near
        b == IF side = "BUY" THEN price + far ELSE price - far
    IN  IF a = b THEN <<a>> ELSE <<a, b>>

\* C21: without pivots and walls calculate_targets returns exactly price +- 3 ATR
\* and price +- 5 ATR in a trending regime and price +- 1.5 ATR and
\* price +- 2.5 ATR in every other regime, de-duplicated, ascending for BUY and
\* descending for SELL; trending, ATR 100, price 50000, BUY gives 50300, 50500
C21_BaseTargets ==
    (/\ lastCall.name = "calculate_targets"
     /\ lastCall.pivot_levels = NoPivots
     /\ ~lastCall.gex_data.present) =>
        /\ lastCall.targets =
              StatedTargets(lastCall.price, lastCall.side, lastCall.atr, lastCall.regime)
        /\ \A i \in 1..(Len(lastCall.targets) - 1) :
              IF lastCall.side = "BUY" THEN lastCall.targets[i] < lastCall.targets[i + 1]
                                       ELSE lastCall.targets[i] > lastCall.targets[i + 1]

C21_Witness ==
    /\ lastCall.name = "calculate_targets"
    /\ lastCall.pivot_levels = NoPivots
    /\ ~lastCall.gex_data.present
    /\ lastCall.regime = "TRENDING_INTRADAY"
    /\ lastCall.side = "BUY"
    /\ lastCall.atr = 100
    /\ lastCall.price = 50000
    /\ lastCall.targets = <<50300, 50500>>

C21_WitnessSell ==
    /\ lastCall.name = "calculate_targets"
    /\ lastCall.pivot_levels = NoPivots
    /\ ~lastCall.gex_data.present
    /\ lastCall.side = "SELL"
    /\ lastCall.targets = <<49850, 49750>>

\* C22: with wall data supplied, for BUY with a call wall above the price no
\* returned target lies above callWall - 10, and for SELL with a put wall below
\* the price no returned target lies below putWall + 10
C22_TargetsClippedAtWall ==
    (lastCall.name = "calculate_targets" /\ lastCall.gex_data.present) =>
        \A i \in 1..Len(lastCall.targets) :
            /\ (lastCall.side = "BUY" /\ lastCall.gex_data.call_wall > lastCall.price)
                  => lastCall.targets[i] <= lastCall.gex_data.call_wall - 10
            /\ (lastCall.side = "SELL" /\ 0 < lastCall.gex_data.put_wall
                                       /\ lastCall.gex_data.put_wall < lastCall.price)
                  => lastCall.targets[i] >= lastCall.gex_data.put_wall + 10

----------------------------------------------------------------------------
\* StrategyOptimizer.calculate_tsl applied to one open position over a sequence
\* of price updates (checked under TslSpec)

TslEntries == {50000}
TslSides == {"BUY", "SELL"}
TslAtrs == {100, 200}
TslRegimes == {"NOMINAL", "VOLATILE"}
TslPrices == {49800, 50000, 50100, 50200, 50400}

OpenPositions ==
    {[name |-> "open_position", entry_price |-> en, side |-> sd, atr |-> at, regime |-> rg] :
        en \in TslEntries, sd \in TslSides, at \in TslAtrs, rg \in TslRegimes}

\* one price update: the stop is computed from the entry and the current price;
\* `earlier` keeps the tightest stop produced before this one
CalculateTsl ==
    \E current_price \in TslPrices :
        LET first == lastCall.name = "open_position"
            tighter(a, b) == IF lastCall.side = "BUY" THEN Max2(a, b) ELSE Min2(a, b)
        IN  lastCall' =
                [name |-> "calculate_tsl", entry_price |-> lastCall.entry_price,
                 side |-> lastCall.side, atr |-> lastCall.atr, regime |-> lastCall.regime,
                 current_price |-> current_price,
                 stop |-> calculate_tsl(lastCall.entry_price, current_price, lastCall.side,
                                        lastCall.atr, lastCall.regime),
                 updates |-> IF first THEN "one" ELSE "many",
                 earlier |-> IF first THEN 0
                             ELSE IF lastCall.updates = "one" THEN lastCall.stop
                             ELSE tighter(lastCall.earlier, lastCall.stop)]
    /\ lastCall.name \in {"open_position", "calculate_tsl"}
    /\ UNCHANGED <<riskVars, ksVars, wdVars, graphVars>>

TslInit ==
    /\ RiskIdle /\ KsInit /\ WdInit /\ GraphIdle
    /\ lastCall \in OpenPositions

TslNext == CalculateTsl

TslSpec == TslInit /\ [][TslNext]_vars

\* C23: over any sequence of price updates for one open position with fixed
\* entry price, ATR and regime, each stop produced is, for BUY, at least every
\* stop produced earlier for that position, and for SELL at most
C23_StopNeverLoosens ==
    (lastCall.name = "calculate_tsl" /\ lastCall.updates = "many") =>
        IF lastCall.side = "BUY" THEN lastCall.stop >= lastCall.earlier
                                 ELSE lastCall.stop <= lastCall.earlier

----------------------------------------------------------------------------
\* IntelligenceLayer._exit_monitor applied to a snapshot holding open positions,
\* a price and a regime; its update is merged as the graph merges it (checked
\* under ExitSpec)

ExitPool ==
    {Position("A", "BUY", 49900, 49950), Position("B", "BUY", 49900, 50050),
     Position("C", "SELL", 50100, 50050), Position("D", "SELL", 50100, 49950)}

ExitPositionLists ==
    {<<>>} \cup {<<a>> : a \in ExitPool} \cup {<<a, b>> : a \in ExitPool, b \in ExitPool}

ExitPrices == {49950, 50000, 50050}
ExitRegimes == {"NOMINAL", "VOLATILE", "CRASH"}

ExitInputs ==
    {[name |-> "exit_inputs",
      state |-> Merge(BlankState, [positions |-> ps, regime |-> rg,
                                   technical_context |-> [EmptyCtx EXCEPT !.ltp = pr,
                                                                          !.regime = rg]])] :
        ps \in ExitPositionLists, pr \in ExitPrices, rg \in ExitRegimes}

ExitMonitorCall ==
    /\ lastCall.name = "exit_inputs"
    /\ lastCall' = [name |-> "_exit_monitor", state |-> lastCall.state,
                    result |-> Merge(lastCall.state, _exit_monitor(lastCall.state).update)]
    /\ UNCHANGED <<riskVars, ksVars, wdVars, graphVars>>

ExitInit ==
    /\ RiskIdle /\ KsInit /\ WdInit /\ GraphIdle
    /\ lastCall \in ExitInputs

ExitNext == ExitMonitorCall

ExitSpec == ExitInit /\ [][ExitNext]_vars

\* a position the monitor is to flag: BUY at or below its recorded stop or in a
\* CRASH regime, SELL at or above its recorded stop
Flagged(pos, price, regime) ==
    \/ pos.side = "BUY" /\ (price <= pos.stop_loss \/ regime = "CRASH")
    \/ pos.side = "SELL" /\ price >= pos.stop_loss

RECURSIVE FlaggedInstruments(_, _, _)
FlaggedInstruments(positions, price, regime) ==
    IF positions = <<>> THEN <<>>
    ELSE (IF Flagged(Head(positions), price, regime) THEN <<Head(positions).instrument>>
                                                     ELSE <<>>)
         \o FlaggedInstruments(Tail(positions), price, regime)

C24_WitnessNone ==
    /\ lastCall.name = "_exit_monitor"
    /\ Len(lastCall.state.positions) = 2
    /\ lastCall.result.exit_signals = <<>>

----------------------------------------------------------------------------
\* The process of main.py: its own RiskEngine, toggled through
\* /api/risk/circuit-breaker between runs of the IntelligenceLayer, whose
\* risk_engine property builds a RiskEngine of its own (checked under
\* ProcessSpec)

\* toggle_circuit_breaker of main.py on the process's risk_engine
ToggleCircuitBreaker ==
    /\ gPhase = "idle"
    /\ TriggerCircuitBreaker

ProcessNext ==
    \/ RunAnalysis
    \/ Coordinator
    \/ SentimentAgent
    \/ TechnicalAgent
    \/ OptionsAgent
    \/ TftAgent
    \/ RlSniper
    \/ RiskAuditor
    \/ Aggregator
    \/ ExitMonitor
    \/ Superstep
    \/ ReturnResult
    \/ ToggleCircuitBreaker

ProcessInit == RiskIdle /\ KsInit /\ lastCall = NoCall /\ WdInit /\ GraphIdle

ProcessSpec == ProcessInit /\ [][ProcessNext]_vars

\* a step of run_analysis: the start of a run or a step of its graph
RunStep == gPhase' = "running" \/ (gPhase = "running" /\ gPhase' # gPhase)

\* C25: run_analysis, whether it completes or aborts with an exception escaping
\* a step, leaves the RiskState (daily loss, breaker flag, limits) and the
\* kill-switch marker unchanged
C25_RunLeavesRiskStateAlone ==
    [][RunStep => /\ riskVars' = riskVars
                  /\ marker' = marker
                  /\ il'.breaker = il.breaker]_vars

C25_Witness ==
    /\ gPhase = "aborted"
    /\ circuit_breaker_active
    /\ ~il.breaker

C25_WitnessDone ==
    /\ gPhase = "done"
    /\ "risk" \in gDone
    /\ circuit_breaker_active

----------------------------------------------------------------------------
\* update_pnl and validate_order called from several threads on one RiskEngine:
\* the engine takes no lock, so a call is a sequence of attribute reads and
\* writes that other threads' reads and writes may fall between (checked under
\* RaceSpec)

RaceOrders == {[quantity |-> 1, price |-> 50], [quantity |-> 3, price |-> 50]}

SetCall(t, c) == [rCalls EXCEPT ![t] = c]

\* update_pnl is entered
UpdatePnlBegin ==
    \E t \in RiskThreads, pnl \in PnLs :
        /\ rCalls[t].pc = "idle"
        /\ lossesPassed + (IF pnl < 0 THEN -pnl ELSE 0) <= MaxLoss
        /\ lossesPassed' = lossesPassed + (IF pnl < 0 THEN -pnl ELSE 0)
        /\ rCalls' = SetCall(t, [pc |-> "load", pnl |-> pnl])
        /\ UNCHANGED <<daily_loss_limit, max_position_size, current_daily_loss,
                       circuit_breaker_active, resetLast, returnedLosses, lastCall,
                       ksVars, wdVars, graphVars>>

\* self.current_daily_loss += ... : the attribute is read
UpdatePnlLoad ==
    \E t \in RiskThreads :
        /\ rCalls[t].pc = "load"
        /\ rCalls' = SetCall(t, [pc |-> "store", pnl |-> rCalls[t].pnl,
                                 loaded |-> current_daily_loss])
        /\ UNCHANGED <<daily_loss_limit, max_position_size, current_daily_loss,
                       circuit_breaker_active, lossesPassed, resetLast, returnedLosses,
                       lastCall, ksVars, wdVars, graphVars>>

\* ... and the sum is written back
UpdatePnlStore ==
    \E t \in RiskThreads :
        /\ rCalls[t].pc = "store"
        /\ current_daily_loss' = rCalls[t].loaded + loss_of(rCalls[t].pnl)
        /\ rCalls' = SetCall(t, [pc |-> "check", pnl |-> rCalls[t].pnl])
        /\ UNCHANGED <<daily_loss_limit, max_position_size, circuit_breaker_active,
                       lossesPassed, resetLast, returnedLosses, lastCall,
                       ksVars, wdVars, graphVars>>

\* the limit check of update_pnl, and its return
UpdatePnlCheck ==
    \E t \in RiskThreads :
        /\ rCalls[t].pc = "check"
        /\ circuit_breaker_active' =
              IF current_daily_loss >= daily_loss_limit THEN TRUE ELSE circuit_breaker_active
        /\ returnedLosses' = returnedLosses
                               + (IF rCalls[t].pnl < 0 THEN -rCalls[t].pnl ELSE 0)
        /\ rCalls' = SetCall(t, NoRiskCall)
        /\ UNCHANGED <<daily_loss_limit, max_position_size, current_daily_loss,
                       lossesPassed, resetLast, lastCall, ksVars, wdVars, graphVars>>

\* validate_order is entered; after_limit: the update_pnl calls that have
\* returned by now carried losses of at least the limit
ValidateOrderBegin ==
    \E t \in RiskThreads, o \in RaceOrders :
        /\ rCalls[t].pc = "idle"
        /\ rCalls' = SetCall(t, [pc |-> "breaker", order |-> o,
                                 after_limit |-> returnedLosses >= daily_loss_limit])
        /\ UNCHANGED <<daily_loss_limit, max_position_size, current_daily_loss,
                       circuit_breaker_active, lossesPassed, resetLast, returnedLosses,
                       lastCall, ksVars, wdVars, graphVars>>

Returned(t, result) ==
    [name |-> "validate_order_returned", order |-> rCalls[t].order,
     after_limit |-> rCalls[t].after_limit, result |-> result]

\* if self.circuit_breaker_active
ValidateOrderBreaker ==
    \E t \in RiskThreads :
        /\ rCalls[t].pc = "breaker"
        /\ IF circuit_breaker_active
             THEN /\ rCalls' = SetCall(t, NoRiskCall)
                  /\ lastCall' = Returned(t, [allowed |-> FALSE,
                                 reason |-> "Circuit breaker is ACTIVE. Trading halted."])
             ELSE /\ rCalls' = SetCall(t, [rCalls[t] EXCEPT !.pc = "loss"])
                  /\ UNCHANGED lastCall
        /\ UNCHANGED <<daily_loss_limit, max_position_size, current_daily_loss,
                       circuit_breaker_active, lossesPassed, resetLast, returnedLosses,
                       ksVars, wdVars, graphVars>>

\* if self.current_daily_loss >= self.daily_loss_limit, then the size check
ValidateOrderLoss ==
    \E t \in RiskThreads :
        /\ rCalls[t].pc = "loss"
        /\ rCalls' = SetCall(t, NoRiskCall)
        /\ lastCall' = Returned(t,
              IF current_daily_loss >= daily_loss_limit
                THEN [allowed |-> FALSE, reason |-> "Daily loss limit reached."]
              ELSE IF order_value(rCalls[t].order) > max_position_size
                THEN [allowed |-> FALSE, reason |-> "Order value exceeds max position size."]
              ELSE [allowed |-> TRUE, reason |-> "Safe to proceed."])
        /\ UNCHANGED <<daily_loss_limit, max_position_size, current_daily_loss,
                       circuit_breaker_active, lossesPassed, resetLast, returnedLosses,
                       ksVars, wdVars, graphVars>>

RaceNext ==
    \/ UpdatePnlBegin
    \/ UpdatePnlLoad
    \/ UpdatePnlStore
    \/ UpdatePnlCheck
    \/ ValidateOrderBegin
    \/ ValidateOrderBreaker
    \/ ValidateOrderLoss

RaceSpec == Init /\ [][RaceNext]_vars

\* C26: under any interleaving of concurrent update_pnl and validate_order calls
\* on one RiskEngine, without a manual reset, the daily-loss counter loses no
\* update, and no validate_order that starts after update_pnl calls with losses
\* totalling at least the limit have returned is answered with allowed = true
C26_NoLostUpdateUnderRace ==
    /\ (\A t \in RiskThreads : rCalls[t].pc \notin {"load", "store"})
          => current_daily_loss = lossesPassed
    /\ (lastCall.name = "validate_order_returned" /\ lastCall.after_limit)
          => ~lastCall.result.allowed

----------------------------------------------------------------------------
\* activate, deactivate and get_status called from several processes that share
\* kill_switch.lock: each call is a sequence of file-system operations that the
\* other processes' operations may fall between (checked under MarkerSpec)

DefaultReason == "Manual Activation"

SetKsCall(p, c) == [ksCalls EXCEPT ![p] = c]

\* os.remove: the name is gone; a process that holds the file open keeps
\* writing to a file that no longer has a name
Unlinked(calls) ==
    [q \in Procs |-> IF calls[q].pc = "write"
                       THEN [calls[q] EXCEPT !.linked = FALSE] ELSE calls[q]]

\* activate(): open(KILL_SWITCH_FILE, "w") creates the file or empties it
ActivateOpen ==
    \E p \in Procs :
        /\ ksInstances[p] > 0
        /\ ksCalls[p].pc = "idle"
        /\ marker' = [present |-> TRUE, reason |-> ""]
        /\ ksCalls' = SetKsCall(p, [pc |-> "write", linked |-> TRUE])
        /\ UNCHANGED <<ksInstances, instAtActivate, ksLastWrite, ksRaised, lastCall,
                       riskVars, wdVars, graphVars>>

\* f.write(...) and the close at the end of the with block; the call returns
ActivateWrite ==
    \E p \in Procs :
        /\ ksCalls[p].pc = "write"
        /\ marker' = IF ksCalls[p].linked THEN activate_marker(DefaultReason) ELSE marker
        /\ ksCalls' = SetKsCall(p, NoKsCall)
        /\ ksLastWrite' = "activate"
        /\ lastCall' = [name |-> "activate", proc |-> p]
        /\ UNCHANGED <<ksInstances, instAtActivate, ksRaised, riskVars, wdVars, graphVars>>

\* deactivate(): if os.path.exists(KILL_SWITCH_FILE)
DeactivateExists ==
    \E p \in Procs :
        /\ ksInstances[p] > 0
        /\ ksCalls[p].pc = "idle"
        /\ IF is_active
             THEN /\ ksCalls' = SetKsCall(p, [pc |-> "remove"])
                  /\ UNCHANGED <<ksLastWrite, lastCall>>
             ELSE /\ ksLastWrite' = "deactivate"
                  /\ lastCall' = [name |-> "deactivate", proc |-> p]
                  /\ UNCHANGED ksCalls
        /\ UNCHANGED <<marker, ksInstances, instAtActivate, ksRaised,
                       riskVars, wdVars, graphVars>>

\* os.remove(KILL_SWITCH_FILE): FileNotFoundError when the file has gone since
\* the check, and nothing in deactivate catches it
DeactivateRemove ==
    \E p \in Procs :
        /\ ksCalls[p].pc = "remove"
        /\ IF is_active
             THEN /\ marker' = deactivate_marker(marker)
                  /\ ksCalls' = Unlinked(SetKsCall(p, NoKsCall))
                  /\ ksLastWrite' = "deactivate"
                  /\ lastCall' = [name |-> "deactivate", proc |-> p]
                  /\ UNCHANGED ksRaised
             ELSE /\ ksRaised' = TRUE
                  /\ ksCalls' = SetKsCall(p, NoKsCall)
                  /\ lastCall' = [name |-> "deactivate", proc |-> p,
                                  raised |-> "FileNotFoundError"]
                  /\ UNCHANGED <<marker, ksLastWrite>>
        /\ UNCHANGED <<ksInstances, instAtActivate, riskVars, wdVars, graphVars>>

\* get_status(): if self.is_active()
GetStatusExists ==
    \E p \in Procs :
        /\ ksInstances[p] > 0
        /\ ksCalls[p].pc = "idle"
        /\ IF is_active
             THEN /\ ksCalls' = SetKsCall(p, [pc |-> "read"])
                  /\ UNCHANGED lastCall
             ELSE /\ lastCall' = [name |-> "get_status", proc |-> p, result |-> get_status]
                  /\ UNCHANGED ksCalls
        /\ UNCHANGED <<marker, ksInstances, instAtActivate, ksLastWrite, ksRaised,
                       riskVars, wdVars, graphVars>>

\* the read inside try / except: a file that has gone reads as
\* "Active (Unknown Reason)"
GetStatusRead ==
    \E p \in Procs :
        /\ ksCalls[p].pc = "read"
        /\ ksCalls' = SetKsCall(p, NoKsCall)
        /\ lastCall' = [name |-> "get_status", proc |-> p,
                        result |-> [status |-> "KILLED",
                                    details |-> IF is_active THEN marker.reason
                                                ELSE "Active (Unknown Reason)"]]
        /\ UNCHANGED <<marker, ksInstances, instAtActivate, ksLastWrite, ksRaised,
                       riskVars, wdVars, graphVars>>

MarkerNext ==
    \/ NewKillSwitch
    \/ ActivateOpen
    \/ ActivateWrite
    \/ DeactivateExists
    \/ DeactivateRemove
    \/ GetStatusExists
    \/ GetStatusRead

MarkerSpec == Init /\ [][MarkerNext]_vars

\* C27: any interleaving of activate(), deactivate() and get_status() calls from
\* several processes completes without an error in any of them, and once all
\* calls have returned the marker is present exactly if the write that
\* completed last was an activate
C27_LastWriterWins ==
    /\ ~ksRaised
    /\ (\A p \in Procs : ksCalls[p].pc = "idle")
          => /\ ksLastWrite = "activate" => is_active
             /\ ksLastWrite = "deactivate" => ~is_active

----------------------------------------------------------------------------
\* the technical narrative at the end of a run (checked under GraphSpec)

\* the steps of this run that return a technical_analysis
NarrativeWriters ==
    {"technical", "options"}
      \cup (IF gEnv.world.tft.kind = "pipeline_raises" THEN {} ELSE {"tft"})

\* their contributions, each once, in the order of the declared edges
StatedNarrative ==
    SelectSeq(<<"technical", "options", "tft">>, LAMBDA n : n \in NarrativeWriters)

\* C28: at the end of a run the technical narrative consists of the
\* contribution of each step that writes it (technical, options, tft), each
\* exactly once, in the order fixed by the declared edges
C28_NarrativeOncePerWriter ==
    gPhase = "done" => gState.technical_analysis = StatedNarrative

----------------------------------------------------------------------------
\* the breaker of the process and the runs of its IntelligenceLayer (checked
\* under ProcessSpec, where the breaker changes only between runs)

\* C29: after the breaker has been tripped through the process's RiskEngine,
\* every later workflow run ends with risk_approval = false and the final
\* action HOLD, until the breaker is reset
C29_TrippedBreakerHoldsRuns ==
    (gPhase = "done" /\ circuit_breaker_active)
        => (~gState.risk_approval /\ gState.final_signal = "HOLD")

----------------------------------------------------------------------------
\* the active-autonomous set and the stored modes (checked under WatchdogSpec)

\* no update_settings request is suspended between its read and its write
NoRequestInFlight == \A u \in Users : usRead[u] = "idle"

\* C30: once every set_execution_mode, update_settings and _emergency_stop call
\* of an interleaving has completed, a principal is in the active-autonomous set
\* if and only if its stored TRADING_MODE is AUTO
C30_SetMatchesStoredMode ==
    NoRequestInFlight
        => \A u \in Users : (u \in active_auto_users) <=> (settings[u] = "AUTO")

====
